---- MODULE Spec2Model ----
(***************************************************************************)
(* A model of the scheduling back-end of ai-crm: the relational store      *)
(* (providers, clients, services, appointments, blocked times, chats and   *)
(* messages), the assistant's action handlers (services/ai_functions.py),  *)
(* the REST endpoints that write the same tables (routers/appointments.py, *)
(* routers/blocked_times.py) and the chat turn (routers/ai.py).            *)
(*                                                                         *)
(* Time is counted in slots; a day has DayLen slots and the calendar has   *)
(* NumDays days.  Identifiers are strings; rows are records.  The rows     *)
(* carry the columns the writers set (appointments: service_id, revenue).  *)
(* created_at / updated_at are not modelled.                               *)
(***************************************************************************)
EXTENDS Integers, Sequences, FiniteSets, TLC

VARIABLES
    db,        \* the committed database: one function id -> row per table
    last,      \* the outcome of the last store operation (history)
    req,       \* the concurrent booking requests, each with its own session
    turn,      \* the chat turn in progress (routers/ai.py chat_with_ai)
    messages   \* the committed rows of the messages table, in creation order

vars == <<db, last, req, turn, messages>>

-----------------------------------------------------------------------------
(* Bounds of the model *)

NumDays == 2        \* days of the calendar
DayLen == 2         \* slots of one day
MaxAppts == 2       \* rows of the appointments table
MaxBlocks == 1      \* rows of the blocked_times table

(* Program constants *)

DaysPerWeek == 7    \* timedelta(weeks=1)
DaysPerMonth == 30  \* "Simple monthly - add 30 days"

-----------------------------------------------------------------------------
(* Values *)

NoId == "none"          \* Python None where an identifier is expected
NoTime == 0 - 1         \* Python None where a date or a time is expected
BadDate == 0 - 2        \* a string datetime.fromisoformat rejects
NoName == "none"        \* Python None where a name is expected
NoPrice == 0 - 1        \* Python None where a revenue is expected
NoStatus == "unset"     \* a field the update request leaves out
MalformedId == "bad"    \* a string that is no UUID
UnknownProvider == "p9" \* a well-formed UUID that names no row
UnknownClient == "c9"
UnknownAppt == "a0"

Times == 0..(NumDays * DayLen - 1)
Days == 0..(NumDays - 1)
TimesOfDay == 0..(DayLen - 1)

ProviderIds == {"p1", "p2"}
ClientIds == {"c1"}
ServiceIds == {"s1"}
ApptId(i) == "a" \o ToString(i)
ApptIds == {ApptId(i) : i \in 1..MaxAppts}
BlockId(i) == "b" \o ToString(i)
BlockIds == {BlockId(i) : i \in 1..MaxBlocks}

\* models/appointment.py AppointmentStatus
SCHEDULED == "scheduled"
CONFIRMED == "confirmed"
CANCELLED == "cancelled"
COMPLETED == "completed"
NO_SHOW == "no_show"
AppointmentStatus == {SCHEDULED, CONFIRMED, CANCELLED, COMPLETED, NO_SHOW}

EmptyTable == [x \in {} |-> TRUE]
Put(f, k, v) == [x \in DOMAIN f \cup {k} |-> IF x = k THEN v ELSE f[x]]

\* uuid4 primary keys: a fresh identifier, here the first unused one
NewApptId(d) == ApptId(Cardinality(DOMAIN d.appointments) + 1)
NewBlockId(d) == BlockId(Cardinality(DOMAIN d.blocked_times) + 1)

-----------------------------------------------------------------------------
(* Results *)

\* the marks that open the lines of a reply: the cross mark and the check mark
CrossMark == "(x) "
CheckMark == "(v) "

\* the uniform result of an assistant action: {"success", "message" | "error"}
Ok(msg) == [success |-> TRUE, message |-> msg, error |-> "", detail |-> ""]
Fail(err, detail) == [success |-> FALSE, message |-> "", error |-> err, detail |-> detail]

\* the exceptions that come from the database server: the server has aborted the
\* transaction of the session, and refuses every statement until a rollback
ServerErrors == {"DataError", "IntegrityError", "InFailedSqlTransaction"}

\* what a handler body does: it returns a result or raises, and leaves a database
\* and the transaction of its session aborted or not
Return(res, d) == [kind |-> "return", result |-> res, db |-> d, tx_aborted |-> FALSE]
Raise(exc, d) ==
    [kind |-> "raise", result |-> Fail(exc, ""), db |-> d,
     tx_aborted |-> exc \in ServerErrors]

(* A mutation of the except clause: the exception propagates to the caller. *)
ExceptRollbackPropagates(o, before) == o

\* except Exception as e: db.rollback(); return {"success": False, "error": str(e)}
ExceptRollback(o, before) ==
    IF o.kind = "raise" THEN Return(Fail(o.result.error, ""), before) ELSE o

\* except Exception as e: return {"success": False, "error": str(e)}
ExceptReturn(o) ==
    IF o.kind = "raise"
    THEN [Return(Fail(o.result.error, ""), o.db) EXCEPT !.tx_aborted = o.tx_aborted]
    ELSE o

\* db.query(T).filter(T.id == id).first(): a malformed identifier makes the query raise
QueryRaises(id) == id = MalformedId
Found(table, id) == id \in DOMAIN table

-----------------------------------------------------------------------------
(* Intervals *)

\* the filter "row.start_time < end AND row.end_time > start" of every overlap query
Overlaps(s1, e1, s2, e2) == s1 < e2 /\ e1 > s2

\* datetime.fromisoformat(f"{date}T{time}:00")
IsoParsable(date, time) == date \notin {NoTime, BadDate} /\ time # NoTime
IsoParse(date, time) == date * DayLen + time

\* reason = blocked.reason or blocked.block_type or "blocked"
BlockReason(b) ==
    IF b.reason # "" THEN b.reason
    ELSE IF b.block_type # "" THEN b.block_type
    ELSE "blocked"

-----------------------------------------------------------------------------
(* The assistant's actions (services/ai_functions.py).  Each handler is the   *)
(* set of outcomes of its body on the arguments and the database.            *)

(* A mutation of the blocked-time query: only the blocked times that start   *)
(* inside the requested interval are selected.                              *)
BlockedMatchesStartingInside(d, provider_id, start_dt, end_dt) ==
    {b \in DOMAIN d.blocked_times :
        /\ d.blocked_times[b].provider_id = provider_id
        /\ d.blocked_times[b].is_active
        /\ d.blocked_times[b].start_time >= start_dt
        /\ d.blocked_times[b].start_time < end_dt}

\* the rows the blocked-time query of create_appointment selects
BlockedMatches(d, provider_id, start_dt, end_dt) ==
    {b \in DOMAIN d.blocked_times :
        /\ d.blocked_times[b].provider_id = provider_id
        /\ d.blocked_times[b].is_active
        /\ d.blocked_times[b].start_time < end_dt
        /\ d.blocked_times[b].end_time > start_dt}

(* A mutation of the conflict query: the status filter is left out. *)
ConflictMatchesAnyStatus(d, provider_id, start_dt, end_dt) ==
    {a \in DOMAIN d.appointments :
        /\ d.appointments[a].provider_id = provider_id
        /\ d.appointments[a].start_time < end_dt
        /\ d.appointments[a].end_time > start_dt}

\* the rows the appointment-conflict query selects (both booking paths)
ConflictMatches(d, provider_id, start_dt, end_dt) ==
    {a \in DOMAIN d.appointments :
        /\ d.appointments[a].provider_id = provider_id
        /\ d.appointments[a].status # CANCELLED
        /\ d.appointments[a].start_time < end_dt
        /\ d.appointments[a].end_time > start_dt}

\* Appointment(...); db.add(appointment); db.commit()
InsertAppointment(d, row) ==
    [d EXCEPT !.appointments = Put(@, NewApptId(d), row)]

AppointmentRow(provider_id, client_id, service_id, start_dt, end_dt, revenue) ==
    [provider_id |-> provider_id, client_id |-> client_id, service_id |-> service_id,
     start_time |-> start_dt, end_time |-> end_dt, status |-> SCHEDULED,
     revenue |-> revenue]

\* a booking that passed every check and waits for db.add and db.commit
Pending(row, d) ==
    [kind |-> "pending", result |-> Ok("Booked"), db |-> d, tx_aborted |-> FALSE,
     row |-> row]

\* create_appointment up to db.add: the lookups, the parse, the two overlap queries
\* and the service lookup
create_appointment_checks(args, d) ==
    IF QueryRaises(args.provider_id) THEN {Raise("DataError", d)}
    ELSE IF ~Found(d.providers, args.provider_id)
        THEN {Return(Fail("Provider not found", ""), d)}
    ELSE IF QueryRaises(args.client_id) THEN {Raise("DataError", d)}
    ELSE IF ~Found(d.clients, args.client_id)
        THEN {Return(Fail("Client not found", ""), d)}
    ELSE IF ~IsoParsable(args.date, args.start_time) \/ ~IsoParsable(args.date, args.end_time)
        THEN {Raise("ValueError", d)}
    ELSE
        LET start_dt == IsoParse(args.date, args.start_time)
            end_dt == IsoParse(args.date, args.end_time)
            blocked == BlockedMatches(d, args.provider_id, start_dt, end_dt)
            conflict == ConflictMatches(d, args.provider_id, start_dt, end_dt)
            revenue == IF args.service_id # NoId /\ Found(d.services, args.service_id)
                       THEN d.services[args.service_id].price ELSE NoPrice
        IN  IF blocked # {}
                THEN {Return(Fail("unavailable", BlockReason(d.blocked_times[b])), d) :
                        b \in blocked}
            ELSE IF conflict # {}
                THEN {Return(Fail("already has an appointment", ""), d)}
            ELSE {Pending(AppointmentRow(args.provider_id, args.client_id,
                                         args.service_id, start_dt, end_dt, revenue), d)}

(* A mutation of the commit: the insert is refused when a non-cancelled      *)
(* appointment of the provider overlaps by then (a serialised writer).       *)
commit_appointment_serialised(row, d) ==
    IF ConflictMatches(d, row.provider_id, row.start_time, row.end_time) # {}
    THEN {Return(Fail("already has an appointment", ""), d)}
    ELSE IF Cardinality(DOMAIN d.appointments) >= MaxAppts THEN {}
    ELSE {Return(Ok("Booked"), InsertAppointment(d, row))}

\* db.add(appointment); db.commit(): the row is inserted into the database as it is
\* by then (the table of the model holds MaxAppts rows). The assistant stores the
\* service_id it was given even when no service was found: the commit then keeps
\* the dangling reference or fails on it, as the schema of the column has it.
commit_appointment(row, d) ==
    IF Cardinality(DOMAIN d.appointments) >= MaxAppts THEN {}
    ELSE IF row.service_id # NoId /\ ~Found(d.services, row.service_id)
        THEN {Return(Ok("Booked"), InsertAppointment(d, row)), Raise("IntegrityError", d)}
    ELSE {Return(Ok("Booked"), InsertAppointment(d, row))}

\* the body of the try block of create_appointment, in one session with no other
\* writer in between
create_appointment_body(args, d) ==
    UNION {IF o.kind = "pending" THEN commit_appointment(o.row, o.db) ELSE {o} :
            o \in create_appointment_checks(args, d)}

(* A mutation of create_appointment: a booking refused for an appointment    *)
(* conflict is reported as refused and stored all the same.                  *)
create_appointment_keeps_refused(args, d) ==
    {IF ~o.result.success /\ o.result.error = "already has an appointment"
            /\ Cardinality(DOMAIN d.appointments) < MaxAppts
        THEN [o EXCEPT !.db = InsertAppointment(d,
                    AppointmentRow(args.provider_id, args.client_id, args.service_id,
                                   IsoParse(args.date, args.start_time),
                                   IsoParse(args.date, args.end_time), NoPrice))]
        ELSE o :
        o \in {ExceptRollback(x, d) : x \in create_appointment_body(args, d)}}

create_appointment(args, d) ==
    {ExceptRollback(o, d) : o \in create_appointment_body(args, d)}

(* A mutation of cancel_appointment: cancelling a cancelled appointment is rejected. *)
cancel_appointment_body_rejects_repeat(args, d) ==
    IF QueryRaises(args.appointment_id) THEN {Raise("DataError", d)}
    ELSE IF ~Found(d.appointments, args.appointment_id)
        THEN {Return(Fail("Appointment not found", ""), d)}
    ELSE IF d.appointments[args.appointment_id].status = CANCELLED
        THEN {Raise("AlreadyCancelled", d)}
    ELSE {Return(Ok(CrossMark \o "Cancelled appointment"),
                 [d EXCEPT !.appointments[args.appointment_id].status = CANCELLED])}

\* the body of the try block of cancel_appointment
cancel_appointment_body(args, d) ==
    IF QueryRaises(args.appointment_id) THEN {Raise("DataError", d)}
    ELSE IF ~Found(d.appointments, args.appointment_id)
        THEN {Return(Fail("Appointment not found", ""), d)}
    ELSE {Return(Ok(CrossMark \o "Cancelled appointment"),
                 [d EXCEPT !.appointments[args.appointment_id].status = CANCELLED])}

cancel_appointment(args, d) ==
    {ExceptRollback(o, d) : o \in cancel_appointment_body(args, d)}

NewClientId(d) == "c" \o ToString(Cardinality(DOMAIN d.clients) + 1)
NewProviderId(d) == "p" \o ToString(Cardinality(DOMAIN d.providers) + 1)

\* the body of the try block of create_client: any client of that name counts as
\* existing; a name of None fails the NOT NULL constraint at commit
create_client_body(args, d) ==
    IF \E c \in DOMAIN d.clients : d.clients[c].name = args.name
        THEN {Return(Fail("Client already exists", args.name), d)}
    ELSE IF args.name = NoName THEN {Raise("IntegrityError", d)}
    ELSE {Return(Ok(CheckMark \o "Created client"),
                 [d EXCEPT !.clients = Put(@, NewClientId(d),
                        [name |-> args.name, is_active |-> TRUE])])}

create_client(args, d) ==
    {ExceptRollback(o, d) : o \in create_client_body(args, d)}

\* working hours are a pair of hours of the day, start and end, in slots; the
\* default "09:00-17:00" is the whole day of the model
DefaultHours == <<0, DayLen>>

\* the alternatives of the pattern of create_provider
CourtesyTitles == {"Dr.", "Prof.", "Mr.", "Ms.", "Mrs."}

\* the names of the model, cut at their white space
Words(name) ==
    CASE name = "Dr. Katz" -> <<"Dr.", "Katz">>
      [] name = "Ms. Roth" -> <<"Ms.", "Roth">>
      [] name = "Dr Stone" -> <<"Dr", "Stone">>
      [] OTHER -> <<name>>

\* re.match(r'^(Dr\.|Prof\.|Mr\.|Ms\.|Mrs\.)\s+', name): one of the titles at the
\* start of the name, followed by white space
HasPrefix(name) == Len(Words(name)) > 1 /\ Words(name)[1] \in CourtesyTitles

(* A mutation of create_provider: the title argument is stored whatever the   *)
(* name starts with.                                                         *)
create_provider_body_keeps_title(args, d) ==
    IF args.name = NoName THEN {Raise("TypeError", d)}
    ELSE IF \E p \in DOMAIN d.providers :
                d.providers[p].name = args.name /\ d.providers[p].is_active
        THEN {Return(Fail("Provider already exists", args.name), d)}
    ELSE {Return(Ok(CheckMark \o "Created provider"),
                 [d EXCEPT !.providers = Put(@, NewProviderId(d),
                        [name |-> args.name,
                         title |-> IF args.title # "" THEN args.title ELSE "Provider",
                         working_hours |-> DefaultHours,
                         is_active |-> TRUE])])}

\* the body of the try block of create_provider: re.match raises on a name of None;
\* a name with a prefix is stored without title, another one with the title or
\* "Provider"; only an active provider of that name counts as existing
create_provider_body(args, d) ==
    IF args.name = NoName THEN {Raise("TypeError", d)}
    ELSE IF \E p \in DOMAIN d.providers :
                d.providers[p].name = args.name /\ d.providers[p].is_active
        THEN {Return(Fail("Provider already exists", args.name), d)}
    ELSE {Return(Ok(CheckMark \o "Created provider"),
                 [d EXCEPT !.providers = Put(@, NewProviderId(d),
                        [name |-> args.name,
                         title |-> IF HasPrefix(args.name) THEN ""
                                   ELSE IF args.title # "" THEN args.title
                                   ELSE "Provider",
                         working_hours |-> DefaultHours,
                         is_active |-> TRUE])])}

create_provider(args, d) ==
    {ExceptRollback(o, d) : o \in create_provider_body(args, d)}

\* the body of the try block of get_appointments: the date is parsed while the query
\* is built, the identifiers reach the server when the query runs
get_appointments_body(args, d) ==
    IF args.date = BadDate THEN {Raise("ValueError", d)}
    ELSE IF QueryRaises(args.provider_id) \/ QueryRaises(args.client_id)
        THEN {Raise("DataError", d)}
    ELSE
        LET found == {a \in DOMAIN d.appointments :
                        /\ d.appointments[a].status # CANCELLED
                        /\ args.provider_id # NoId
                            => d.appointments[a].provider_id = args.provider_id
                        /\ args.client_id # NoId
                            => d.appointments[a].client_id = args.client_id
                        /\ args.date # NoTime
                            => /\ d.appointments[a].start_time >= args.date * DayLen
                               /\ d.appointments[a].start_time < (args.date + 1) * DayLen}
        IN  {Return(Ok(IF found = {} THEN "No appointments found"
                       ELSE "Found appointment(s)"), d)}

get_appointments(args, d) ==
    {ExceptReturn(o) : o \in get_appointments_body(args, d)}

SummaryDays == 7  \* for day_offset in range(7)

RECURSIVE Duration(_, _)
\* the sum of end_time - start_time over the rows "ids" of a table
Duration(table, ids) ==
    IF ids = {} THEN 0
    ELSE LET id == CHOOSE x \in ids : TRUE
         IN  table[id].end_time - table[id].start_time + Duration(table, ids \ {id})

\* one line of the week summary of check_availability: the appointments that are
\* not cancelled and the active blocked times of the provider whose start_time
\* lies in the day, their whole durations summed and taken from the span of the
\* working hours
day_summary(provider_id, current_day, d) ==
    LET next_day == current_day + DayLen
        appointments == {a \in DOMAIN d.appointments :
                            /\ d.appointments[a].provider_id = provider_id
                            /\ d.appointments[a].status # CANCELLED
                            /\ d.appointments[a].start_time >= current_day
                            /\ d.appointments[a].start_time < next_day}
        blocked_times == {b \in DOMAIN d.blocked_times :
                            /\ d.blocked_times[b].provider_id = provider_id
                            /\ d.blocked_times[b].is_active
                            /\ d.blocked_times[b].start_time >= current_day
                            /\ d.blocked_times[b].start_time < next_day}
        busy == Duration(d.appointments, appointments)
                    + Duration(d.blocked_times, blocked_times)
        work == d.providers[provider_id].working_hours
        total_work_hours == work[2] - work[1]
        available_hours == total_work_hours - busy
    IN  [day |-> current_day \div DayLen, available_hours |-> available_hours,
         line |-> IF available_hours > 0
                  THEN IF appointments # {} \/ blocked_times # {} THEN "free"
                       ELSE "fully available"
                  ELSE "Fully booked"]

\* the week summary of check_availability: one line for each of the 7 days from
\* the midnight of the date
week_summary(provider_id, date, d) ==
    [i \in 1..SummaryDays |-> day_summary(provider_id, (date + i - 1) * DayLen, d)]

\* the body of the try block of check_availability
check_availability_body(args, d) ==
    IF QueryRaises(args.provider_id) THEN {Raise("DataError", d)}
    ELSE IF ~Found(d.providers, args.provider_id)
        THEN {Return(Fail("Provider not found", ""), d)}
    ELSE IF args.date = NoTime THEN {Raise("TypeError", d)}
    ELSE IF args.date = BadDate THEN {Raise("ValueError", d)}
    ELSE {Return(Ok("availability"), d)}

check_availability(args, d) ==
    {ExceptReturn(o) : o \in check_availability_body(args, d)}

\* Client.name.ilike(f"%{query_text}%"), on the queries of the model: the empty
\* query and whole names
NameMatches(name, query_text) == query_text = "" \/ query_text = name

\* the body of the try block of search_clients
search_clients_body(args, d) ==
    LET clients == {c \in DOMAIN d.clients :
                        d.clients[c].is_active /\ NameMatches(d.clients[c].name, args.query)}
    IN  {Return(Ok(IF clients = {} THEN "No clients found" ELSE "Found client(s)"), d)}

search_clients(args, d) ==
    {ExceptReturn(o) : o \in search_clients_body(args, d)}

\* the body of the try block of get_provider_schedule
get_provider_schedule_body(args, d) ==
    IF QueryRaises(args.provider_id) THEN {Raise("DataError", d)}
    ELSE IF ~Found(d.providers, args.provider_id)
        THEN {Return(Fail("Provider not found", ""), d)}
    ELSE IF args.date = NoTime THEN {Raise("TypeError", d)}
    ELSE IF args.date = BadDate THEN {Raise("ValueError", d)}
    ELSE {Return(Ok("schedule"), d)}

get_provider_schedule(args, d) ==
    {ExceptReturn(o) : o \in get_provider_schedule_body(args, d)}

\* the names of FUNCTION_HANDLERS; the handlers that roll back in their except clause
HandlerNames ==
    {"create_appointment", "get_appointments", "check_availability",
     "cancel_appointment", "create_client", "create_provider", "search_clients",
     "get_provider_schedule"}
RollbackHandlers ==
    {"create_appointment", "cancel_appointment", "create_client", "create_provider"}

\* FUNCTION_HANDLERS[func_name](args, db), in a session whose transaction is intact
FUNCTION_HANDLERS(func_name, args, d) ==
    CASE func_name = "create_appointment" -> create_appointment(args, d)
      [] func_name = "get_appointments" -> get_appointments(args, d)
      [] func_name = "check_availability" -> check_availability(args, d)
      [] func_name = "cancel_appointment" -> cancel_appointment(args, d)
      [] func_name = "create_client" -> create_client(args, d)
      [] func_name = "create_provider" -> create_provider(args, d)
      [] func_name = "search_clients" -> search_clients(args, d)
      [] func_name = "get_provider_schedule" -> get_provider_schedule(args, d)

\* a handler in a session whose transaction the server has aborted: its body
\* raises, and its except clause rolls back or does not
HandlerInAbortedTransaction(func_name, d) ==
    IF func_name \in RollbackHandlers
    THEN {ExceptRollback(Raise("InFailedSqlTransaction", d), d)}
    ELSE {ExceptReturn(Raise("InFailedSqlTransaction", d))}

\* execute_function(func_name, args, db)
execute_function(func_name, args, d, tx_aborted) ==
    IF func_name \notin HandlerNames
    THEN {[Return(Fail("Unknown function", func_name), d)
             EXCEPT !.tx_aborted = tx_aborted]}
    ELSE IF tx_aborted THEN HandlerInAbortedTransaction(func_name, d)
    ELSE FUNCTION_HANDLERS(func_name, args, d)

-----------------------------------------------------------------------------
(* The REST endpoints of the appointments table (routers/appointments.py).   *)
(* An endpoint answers with an HTTP status and leaves a database.            *)

Http(status, d) == [status |-> status, db |-> d]

\* POST /appointments
rest_create_appointment(data, d) ==
    IF ~Found(d.providers, data.provider_id) THEN {Http(404, d)}
    ELSE IF ~Found(d.clients, data.client_id) THEN {Http(404, d)}
    ELSE IF data.service_id # NoId /\ ~Found(d.services, data.service_id) THEN {Http(404, d)}
    ELSE
        LET service_revenue ==
                IF data.service_id # NoId /\ data.revenue = NoPrice
                THEN d.services[data.service_id].price ELSE data.revenue
            conflict == ConflictMatches(d, data.provider_id, data.start_time, data.end_time)
        IN  IF conflict # {} THEN {Http(409, d)}
            ELSE IF Cardinality(DOMAIN d.appointments) >= MaxAppts THEN {}
            ELSE {Http(201, InsertAppointment(d, AppointmentRow(data.provider_id,
                        data.client_id, data.service_id, data.start_time, data.end_time,
                        service_revenue)))}

\* the "if data.x is not None: appointment.x = data.x" assignments of update_appointment
UpdatedRow(row, data, d) ==
    [row EXCEPT
        !.provider_id = IF data.provider_id # NoId THEN data.provider_id ELSE @,
        !.client_id = IF data.client_id # NoId THEN data.client_id ELSE @,
        !.service_id = IF data.service_id # NoId THEN data.service_id ELSE @,
        !.revenue = IF data.revenue # NoPrice THEN data.revenue
                    ELSE IF data.service_id # NoId /\ Found(d.services, data.service_id)
                        THEN d.services[data.service_id].price ELSE @,
        !.start_time = IF data.start_time # NoTime THEN data.start_time ELSE @,
        !.end_time = IF data.end_time # NoTime THEN data.end_time ELSE @,
        !.status = IF data.status # NoStatus THEN data.status ELSE @]

\* the foreign keys of appointments (provider_id, client_id), checked at commit
ForeignKeysHold(row, d) ==
    Found(d.providers, row.provider_id) /\ Found(d.clients, row.client_id)

\* PUT /appointments/{appointment_id}
rest_update_appointment(appointment_id, data, d) ==
    IF ~Found(d.appointments, appointment_id) THEN {Http(404, d)}
    ELSE
        LET row == UpdatedRow(d.appointments[appointment_id], data, d)
        IN  IF ~ForeignKeysHold(row, d) THEN {Http(500, d)}
            ELSE {Http(200, [d EXCEPT !.appointments[appointment_id] = row])}

\* DELETE /appointments/{appointment_id}
rest_delete_appointment(appointment_id, d) ==
    IF ~Found(d.appointments, appointment_id) THEN {Http(404, d)}
    ELSE {Http(204, [d EXCEPT !.appointments[appointment_id].status = CANCELLED])}

-----------------------------------------------------------------------------
(* The REST endpoints of the blocked_times table (routers/blocked_times.py). *)

\* POST /blocked-times; a block_type of None takes the column default "other"
rest_create_blocked_time(data, d) ==
    IF ~Found(d.providers, data.provider_id) THEN {Http(404, d)}
    ELSE IF data.end_time <= data.start_time THEN {Http(400, d)}
    ELSE IF Cardinality(DOMAIN d.blocked_times) >= MaxBlocks THEN {}
    ELSE {Http(200, [d EXCEPT !.blocked_times = Put(@, NewBlockId(d),
                [provider_id |-> data.provider_id,
                 start_time |-> data.start_time, end_time |-> data.end_time,
                 block_type |-> IF data.block_type = NoStatus THEN "other"
                                ELSE data.block_type,
                 reason |-> data.reason,
                 is_recurring |-> data.is_recurring,
                 recurrence_pattern |-> data.recurrence_pattern,
                 recurrence_end_date |-> data.recurrence_end_date,
                 is_active |-> TRUE])])}

\* DELETE /blocked-times/{blocked_time_id}: a soft delete
rest_delete_blocked_time(blocked_time_id, d) ==
    IF ~Found(d.blocked_times, blocked_time_id) THEN {Http(404, d)}
    ELSE {Http(200, [d EXCEPT !.blocked_times[blocked_time_id].is_active = FALSE])}

\* the step from one occurrence of a recurring blocked time to the next, in slots;
\* 0 for a pattern the expansion does not know (it stops after the template)
RecurrenceStep(pattern) ==
    IF pattern = "daily" THEN DayLen
    ELSE IF pattern = "weekly" THEN DaysPerWeek * DayLen
    ELSE IF pattern = "monthly" THEN DaysPerMonth * DayLen
    ELSE 0

\* the occurrences expand_recurring_blocked_time generates for a blocked time, as
\* <<start, end>> pairs, within the calendar of the model: the template and, for a
\* known pattern, its shifts, as long as the start is not after recurrence_end_date
Occurrences(b) ==
    LET step == RecurrenceStep(b.recurrence_pattern)
        steps == IF b.is_recurring /\ step > 0 THEN 0..NumDays ELSE {0}
    IN  {<<b.start_time + k * step, b.end_time + k * step>> :
            k \in {j \in steps :
                /\ b.start_time + j * step <= NumDays * DayLen
                /\ \/ b.recurrence_end_date = NoTime
                   \/ b.start_time + j * step <= b.recurrence_end_date}}

-----------------------------------------------------------------------------
(* The store after construction: two providers, a client and a service, no   *)
(* appointment and no blocked time.                                          *)

InitDb ==
    [providers |-> [p \in ProviderIds |->
                      IF p = "p1" THEN [name |-> "Cohen", title |-> "Dr.",
                                        working_hours |-> DefaultHours,
                                        is_active |-> TRUE]
                      ELSE [name |-> "Levy", title |-> "",
                            working_hours |-> <<0, 1>>, is_active |-> TRUE]],
     clients |-> [c \in ClientIds |-> [name |-> "John", is_active |-> TRUE]],
     chats |-> EmptyTable,
     services |-> [x \in ServiceIds |-> [provider_id |-> "p1", price |-> 50,
                                         is_active |-> TRUE]],
     appointments |-> EmptyTable,
     blocked_times |-> EmptyTable]

NoLast == [op |-> "none", success |-> TRUE, error |-> "", detail |-> "",
           id |-> NoId, repeat |-> FALSE]

\* what an assistant action leaves in "last"
AiLast(op, res, id, repeat) ==
    [op |-> op, success |-> res.success, error |-> res.error, detail |-> res.detail,
     id |-> id, repeat |-> repeat]

\* what a REST call leaves in "last"
RestLast(op, status, id) ==
    [op |-> op, success |-> status < 400, error |-> ToString(status), detail |-> "",
     id |-> id, repeat |-> FALSE]

(* The requests the model sends *)

\* the intervals with end after start
ValidIntervals == {iv \in Times \X Times : iv[1] < iv[2]}

\* bookings of the assistant: a day and two times of that day, end after start;
\* the client may be unknown and the date unparsable
AICreateArgs ==
    {a \in [provider_id : ProviderIds, client_id : ClientIds \cup {UnknownClient},
            service_id : {NoId}, date : Days \cup {NoTime},
            start_time : TimesOfDay, end_time : TimesOfDay] :
        a.start_time < a.end_time}

AICancelArgs == [appointment_id : ApptIds \cup {UnknownAppt}]

RestCreate(provider_id, iv) ==
    [provider_id |-> provider_id, client_id |-> "c1", service_id |-> NoId,
     start_time |-> iv[1], end_time |-> iv[2], revenue |-> NoPrice]

\* bookings of the REST endpoint: any valid interval of the calendar
RestCreateData == {RestCreate(p, iv) : p \in ProviderIds, iv \in ValidIntervals}

\* the REST bookings that the assistant can express too (within one day)
RestSameDayData ==
    {RestCreate(a.provider_id,
                <<IsoParse(a.date, a.start_time), IsoParse(a.date, a.end_time)>>) :
        a \in {x \in AICreateArgs : x.date # NoTime}}

\* updates of the REST endpoint: move to another provider, reschedule, set a status
RestUpdateData ==
    {[provider_id |-> p, client_id |-> NoId, service_id |-> NoId, revenue |-> NoPrice,
      start_time |-> iv[1], end_time |-> iv[2], status |-> st] :
        p \in ProviderIds \cup {NoId, UnknownProvider},
        iv \in ValidIntervals \cup {<<NoTime, NoTime>>},
        st \in {NoStatus, SCHEDULED, CANCELLED}}

\* blocked times of the REST endpoint
BlockedTimeData ==
    {[provider_id |-> p, start_time |-> iv[1], end_time |-> iv[2],
      block_type |-> tr[1], reason |-> tr[2],
      is_recurring |-> rec, recurrence_pattern |-> IF rec THEN "daily" ELSE "",
      recurrence_end_date |-> NoTime] :
        p \in ProviderIds, iv \in ValidIntervals \cup {<<1, 1>>},
        tr \in {<<"lunch", "">>, <<"lunch", "Offsite">>, <<"", "">>},
        rec \in BOOLEAN}

-----------------------------------------------------------------------------
(* Store operations, one request at a time *)

AICreateAppointment(args) ==
    /\ \E o \in create_appointment(args, db) :
        /\ db' = o.db
        /\ last' = AiLast("ai_create", o.result, NoId, FALSE)
    /\ UNCHANGED <<req, turn, messages>>

AICancelAppointment(args) ==
    /\ \E o \in cancel_appointment(args, db) :
        /\ db' = o.db
        /\ last' = AiLast("ai_cancel", o.result, args.appointment_id,
                          last.op = "ai_cancel" /\ last.id = args.appointment_id
                            /\ last.success)
    /\ UNCHANGED <<req, turn, messages>>

RestCreateAppointment(data) ==
    /\ \E o \in rest_create_appointment(data, db) :
        /\ db' = o.db
        /\ last' = RestLast("rest_create", o.status, NoId)
    /\ UNCHANGED <<req, turn, messages>>

RestUpdateAppointment(id, data) ==
    /\ \E o \in rest_update_appointment(id, data, db) :
        /\ db' = o.db
        /\ last' = RestLast("rest_update", o.status, id)
    /\ UNCHANGED <<req, turn, messages>>

RestDeleteAppointment(id) ==
    /\ \E o \in rest_delete_appointment(id, db) :
        /\ db' = o.db
        /\ last' = RestLast("rest_delete", o.status, id)
    /\ UNCHANGED <<req, turn, messages>>

RestCreateBlockedTime(data) ==
    /\ \E o \in rest_create_blocked_time(data, db) :
        /\ db' = o.db
        /\ last' = RestLast("rest_block", o.status, NoId)
    /\ UNCHANGED <<req, turn, messages>>

RestDeleteBlockedTime(id) ==
    /\ \E o \in rest_delete_blocked_time(id, db) :
        /\ db' = o.db
        /\ last' = RestLast("rest_unblock", o.status, id)
    /\ UNCHANGED <<req, turn, messages>>

\* the sessions of the concurrent booking requests (database.py get_db: one session
\* per request)
Sessions == {"r1", "r2"}
IdleRequest == [pc |-> "idle"]
NoRequests == [r \in Sessions |-> IdleRequest]

\* the chat turn before the first request: no step taken, nothing sent
IdleTurn ==
    [pc |-> "idle", status |-> 0, chat_id |-> NoId, first |-> 0,
     pending |-> <<>>, tx_aborted |-> FALSE, start_db |-> InitDb,
     history |-> <<>>, function_calls |-> <<>>, results |-> <<>>,
     ai_response |-> [text |-> "", model |-> "", function_calls |-> <<>>],
     response_text |-> <<>>,
     responses |-> <<>>, fault |-> FALSE, model_failure |-> "none"]

Init ==
    /\ db = InitDb
    /\ last = NoLast
    /\ req = NoRequests
    /\ turn = IdleTurn
    /\ messages = <<>>

\* the appointments table under the assistant and the REST endpoints
Next ==
    \/ \E args \in AICreateArgs : AICreateAppointment(args)
    \/ \E args \in AICancelArgs : AICancelAppointment(args)
    \/ \E data \in RestCreateData : RestCreateAppointment(data)
    \/ \E id \in ApptIds \cup {UnknownAppt}, data \in RestUpdateData :
            RestUpdateAppointment(id, data)
    \/ \E id \in ApptIds \cup {UnknownAppt} : RestDeleteAppointment(id)

Spec == Init /\ [][Next]_vars

\* bookings of both paths against blocked times
NextBlocked ==
    \/ \E args \in AICreateArgs : AICreateAppointment(args)
    \/ \E data \in RestSameDayData : RestCreateAppointment(data)
    \/ \E data \in BlockedTimeData : RestCreateBlockedTime(data)
    \/ \E id \in BlockIds : RestDeleteBlockedTime(id)

SpecBlocked == Init /\ [][NextBlocked]_vars

-----------------------------------------------------------------------------
(* Properties of the store *)

\* the half-open intervals [s1,e1) and [s2,e2) share a slot
Intersect(s1, e1, s2, e2) == \E t \in Times : s1 <= t /\ t < e1 /\ s2 <= t /\ t < e2

Active(a) == db.appointments[a].status # CANCELLED

IntersectingBlocks(args, d) ==
    {b \in DOMAIN d.blocked_times :
        /\ d.blocked_times[b].provider_id = args.provider_id
        /\ d.blocked_times[b].is_active
        /\ Intersect(IsoParse(args.date, args.start_time),
                     IsoParse(args.date, args.end_time),
                     d.blocked_times[b].start_time, d.blocked_times[b].end_time)}

\* the call was refused with the reason of one of the intersecting blocked times
RefusedNamingBlock(args) ==
    /\ ~last'.success
    /\ last'.error = "unavailable"
    /\ \E b \in IntersectingBlocks(args, db) :
            last'.detail = BlockReason(db.blocked_times[b])
    /\ db'.appointments = db.appointments

(* C2, as claimed: every assistant create_appointment call whose interval     *)
(* intersects an active blocked interval of the target provider returns      *)
(* success=false with an error naming that block's reason (or its block      *)
(* type), and persists no appointment.                                       *)
C2_BlockedBookingRefused ==
    [][\A args \in AICreateArgs :
        (/\ AICreateAppointment(args)
         /\ IsoParsable(args.date, args.start_time)
         /\ IntersectingBlocks(args, db) # {})
        => RefusedNamingBlock(args)]_vars

(* C2, amended: the same, for the calls whose client exists (an unknown       *)
(* client is reported first, as "Client not found", and nothing is persisted *)
(* either).                                                                  *)
C2_BlockedBookingRefusedKnownClient ==
    [][\A args \in AICreateArgs :
        (/\ AICreateAppointment(args)
         /\ IsoParsable(args.date, args.start_time)
         /\ IntersectingBlocks(args, db) # {})
        => IF Found(db.clients, args.client_id)
           THEN RefusedNamingBlock(args)
           ELSE ~last'.success /\ db'.appointments = db.appointments]_vars

\* an assistant booking was refused for a blocked time whose reason is empty: the
\* error names the block type
C2_Witness ==
    /\ last.op = "ai_create"
    /\ ~last.success
    /\ last.error = "unavailable"
    /\ last.detail = "lunch"
    /\ db.appointments = EmptyTable

C5_CancelIdempotent ==
    [][\A args \in AICancelArgs :
        (AICancelAppointment(args) /\ Found(db.appointments, args.appointment_id))
        => /\ last'.success
           /\ db'.appointments[args.appointment_id].status = CANCELLED
           /\ (db.appointments[args.appointment_id].status = CANCELLED => db' = db)]_vars

\* cancel_appointment was called twice in a row on the same appointment
C5_Witness ==
    /\ last.op = "ai_cancel"
    /\ last.repeat
    /\ last.success
    /\ db.appointments[last.id].status = CANCELLED

-----------------------------------------------------------------------------
(* Concurrent bookings: each request runs create_appointment in its own       *)
(* session; its queries read what is committed when they run, and its commit  *)
(* inserts its row whatever was committed in between.                         *)

\* the request runs the checks of create_appointment against the committed data
RequestCheck(r, args) ==
    /\ req[r].pc = "idle"
    /\ \E o \in create_appointment_checks(args, db) :
        req' = [req EXCEPT ![r] =
                  IF o.kind = "pending"
                  THEN [pc |-> "checked", row |-> o.row]
                  ELSE [pc |-> "done", result |-> ExceptRollback(o, db).result,
                        id |-> NoId, checked_with |-> {}]]
    /\ UNCHANGED <<db, last, turn, messages>>

\* the request commits; checked_with records the sessions that had passed their own
\* checks and not yet committed at that moment
RequestCommit(r) ==
    /\ req[r].pc = "checked"
    /\ \E o \in commit_appointment(req[r].row, db) :
        /\ db' = o.db
        /\ req' = [req EXCEPT ![r] =
                     [pc |-> "done", result |-> o.result,
                      id |-> IF o.result.success THEN NewApptId(db) ELSE NoId,
                      checked_with |-> {q \in Sessions \ {r} : req[q].pc = "checked"}]]
    /\ UNCHANGED <<last, turn, messages>>

\* the response is sent and the session closed; the records of the other sessions
\* no longer refer to it
RequestClose(r) ==
    /\ req[r].pc = "done"
    /\ req' = [q \in Sessions |->
                 IF q = r THEN IdleRequest
                 ELSE IF req[q].pc = "done"
                 THEN [req[q] EXCEPT !.checked_with = @ \ {r}]
                 ELSE req[q]]
    /\ UNCHANGED <<db, last, turn, messages>>

NextConcurrent ==
    \/ \E r \in Sessions, args \in AICreateArgs : RequestCheck(r, args)
    \/ \E r \in Sessions : RequestCommit(r)
    \/ \E r \in Sessions : RequestClose(r)

SpecConcurrent == Init /\ [][NextConcurrent]_vars

\* both requests have ended, and q had passed its checks before r committed
Raced(r, q) ==
    /\ req[r].pc = "done"
    /\ req[q].pc = "done"
    /\ q \in req[r].checked_with

Committed(r) ==
    /\ req[r].id \in DOMAIN db.appointments
    /\ db.appointments[req[r].id].status # CANCELLED

-----------------------------------------------------------------------------
(* The chat turn (routers/ai.py chat_with_ai) and the model call              *)
(* (services/gemini_service.py).  A reply is the sequence of its paragraphs   *)
(* (the code joins them with a blank line).                                   *)

MaxCalls == 2       \* function calls of one model response
MaxMessages == 3    \* rows of the messages table
MaxChats == 1       \* rows of the chats table

UnknownChat == "k9"
RequestText == "hello"
ChatId(i) == "k" \o ToString(i)
ChatIds == {ChatId(i) : i \in 1..MaxChats}
SimulatedText == "AI is in simulated mode. Please check GEMINI_API_KEY."
ModelName == "gemini-2.5-flash"

\* _get_simulated_response
_get_simulated_response ==
    [text |-> SimulatedText, model |-> "simulated", function_calls |-> <<>>]

(* A mutation of generate_response: an exception of the API call propagates. *)
generate_response_unguarded(has_client, api) ==
    IF ~has_client THEN [kind |-> "return", response |-> _get_simulated_response]
    ELSE IF api.kind = "raise" THEN [kind |-> "raise", response |-> _get_simulated_response]
    ELSE [kind |-> "return",
          response |-> [text |-> api.text, model |-> ModelName,
                        function_calls |-> api.function_calls]]

\* GeminiService.generate_response: without a client, or when anything in its try
\* block raises, the simulated response; otherwise the text and the function calls
\* of the parts of the first candidate (none: an empty text and no call)
generate_response(has_client, api) ==
    IF ~has_client THEN [kind |-> "return", response |-> _get_simulated_response]
    ELSE IF api.kind = "raise"
        THEN [kind |-> "return", response |-> _get_simulated_response]
    ELSE [kind |-> "return",
          response |-> [text |-> api.text, model |-> ModelName,
                        function_calls |-> api.function_calls]]

\* the text of the error of a failed result
ErrorText(result) ==
    IF result.detail = "" THEN result.error ELSE result.error \o ": " \o result.detail
ErrorLine(result) == CrossMark \o ErrorText(result)

RECURSIVE _execute_function_calls_reversed(_, _, _)
(* A mutation of _execute_function_calls: the later calls run first. *)
_execute_function_calls_reversed(function_calls, d, tx_aborted) ==
    IF function_calls = <<>>
    THEN {[results |-> <<>>, db |-> d, tx_aborted |-> tx_aborted]}
    ELSE UNION {
            {[results |-> <<o.result>> \o r.results, db |-> o.db,
              tx_aborted |-> o.tx_aborted] :
                o \in {x \in execute_function(function_calls[1].name,
                                              function_calls[1].args, r.db, r.tx_aborted) :
                            x.kind = "return"}} :
            r \in _execute_function_calls_reversed(Tail(function_calls), d, tx_aborted)}

RECURSIVE _execute_function_calls(_, _, _)
\* _execute_function_calls: the calls run in order on the session of the turn;
\* the outcomes are the results together with the database and the state of the
\* transaction they leave
_execute_function_calls(function_calls, d, tx_aborted) ==
    IF function_calls = <<>>
    THEN {[results |-> <<>>, db |-> d, tx_aborted |-> tx_aborted]}
    ELSE UNION {
            {[r EXCEPT !.results = <<o.result>> \o @] :
                r \in _execute_function_calls(Tail(function_calls), o.db, o.tx_aborted)} :
            o \in {x \in execute_function(function_calls[1].name, function_calls[1].args,
                                          d, tx_aborted) : x.kind = "return"}}

RECURSIVE ResultMessagesOfSuccesses(_)
(* A mutation of _build_response_text: a failed result contributes no line. *)
ResultMessagesOfSuccesses(function_results) ==
    IF function_results = <<>> THEN <<>>
    ELSE LET result == function_results[1]
             line == IF result.success /\ result.message # "" THEN <<result.message>>
                     ELSE <<>>
         IN  line \o ResultMessagesOfSuccesses(Tail(function_results))

RECURSIVE ResultMessages(_)
\* the result_messages of _build_response_text
ResultMessages(function_results) ==
    IF function_results = <<>> THEN <<>>
    ELSE LET result == function_results[1]
             line == IF result.success /\ result.message # "" THEN <<result.message>>
                     ELSE IF ~result.success THEN <<ErrorLine(result)>>
                     ELSE <<>>
         IN  line \o ResultMessages(Tail(function_results))

\* _build_response_text
_build_response_text(ai_response, function_results) ==
    LET response_text ==
            (IF ai_response.text # "" THEN <<ai_response.text>> ELSE <<>>)
                \o ResultMessages(function_results)
    IN  IF response_text = <<>> THEN <<"Done!">> ELSE response_text

UserMessage(chat_id, content) ==
    [chat_id |-> chat_id, message_type |-> "user", content |-> <<content>>,
     model_used |-> ""]
\* an assistant message that does not record the model
AiMessageWithoutModel(chat_id, content, ai_response) ==
    [chat_id |-> chat_id, message_type |-> "ai", content |-> content,
     model_used |-> ""]
AiMessage(chat_id, content, ai_response) ==
    [chat_id |-> chat_id, message_type |-> "ai", content |-> content,
     model_used |-> ai_response.model]

\* db.commit(): the rows the session has added become rows of the table
Commit(rows, pending) == rows \o pending

\* datetime.utcnow(): the clock of the model ticks with each row of the messages
\* table, so a later reading is never smaller and a row added in between makes
\* it larger
utcnow(rows) == Len(rows)

(* A mutation of _save_user_message: the row is added and not committed. *)
_save_user_message_uncommitted(rows, pending, chat_id, content) ==
    [rows |-> rows, pending |-> Append(pending, UserMessage(chat_id, content))]

\* _save_user_message: db.add(user_message); db.commit()
_save_user_message(rows, pending, chat_id, content) ==
    [rows |-> Commit(rows, Append(pending, UserMessage(chat_id, content))),
     pending |-> <<>>]

\* _save_ai_message: db.add(ai_message); db.commit()
_save_ai_message(rows, pending, chat_id, content, ai_response) ==
    [rows |-> Commit(rows, Append(pending, AiMessage(chat_id, content, ai_response))),
     pending |-> <<>>]

\* _build_conversation_history: the messages of the chat but the last one
_build_conversation_history(rows, chat_id) ==
    LET history == SelectSeq(rows, LAMBDA m : m.chat_id = chat_id)
    IN  [i \in 1..(Len(history) - 1) |->
            [role |-> IF history[i].message_type = "user" THEN "user" ELSE "model",
             text |-> history[i].content]]

(* A mutation of the rollback: the database goes back to the start of the turn. *)
rollback_to_turn_start(d, start_db) == start_db

\* db.rollback() in the except clause of chat_with_ai: what is committed stays
rollback(d, start_db) == d

\* the turn ends: the response is sent
EndTurn(t, status) ==
    [t EXCEPT !.pc = "done", !.status = status, !.pending = <<>>,
              !.responses = Append(@, status)]

\* except Exception: db.rollback(); raise HTTPException(status_code=500)
Abort(t) == EndTurn([t EXCEPT !.tx_aborted = FALSE], 500)

(* The requests and the model responses of the model *)

Call(name, args) == [name |-> name, args |-> args]
BookingArgs(provider_id, client_id, date) ==
    [provider_id |-> provider_id, client_id |-> client_id, service_id |-> NoId,
     date |-> date, start_time |-> 0, end_time |-> 1]
QueryArgs(provider_id, date) ==
    [provider_id |-> provider_id, client_id |-> NoId, date |-> date]

\* the function calls a model response is made of: every handler with good
\* arguments, with missing ones and with malformed ones, and an unknown name
ModelCalls ==
    {Call("create_appointment", BookingArgs("p1", "c1", 0)),
     Call("create_appointment", BookingArgs(MalformedId, "c1", 0)),
     Call("create_appointment", BookingArgs("p1", "c1", NoTime)),
     Call("cancel_appointment", [appointment_id |-> "a1"]),
     Call("cancel_appointment", [appointment_id |-> UnknownAppt]),
     Call("create_client", [name |-> "Ann"]),
     Call("create_client", [name |-> "John"]),
     Call("create_client", [name |-> NoName]),
     Call("create_provider", [name |-> "Katz", title |-> ""]),
     Call("create_provider", [name |-> NoName, title |-> ""]),
     Call("get_appointments", QueryArgs(NoId, NoTime)),
     Call("get_appointments", QueryArgs(MalformedId, NoTime)),
     Call("get_appointments", QueryArgs(NoId, BadDate)),
     Call("check_availability", [provider_id |-> "p1", date |-> 0]),
     Call("check_availability", [provider_id |-> UnknownProvider, date |-> 0]),
     Call("search_clients", [query |-> "John"]),
     Call("get_provider_schedule", [provider_id |-> "p1", date |-> NoTime]),
     Call("get_provider_schedule", [provider_id |-> MalformedId, date |-> 0]),
     Call("delete_everything", [confirm |-> TRUE])}

CallLists == UNION {[1..n -> ModelCalls] : n \in 0..MaxCalls}

\* what the API call gives generate_response: an exception (a timeout, a network
\* fault, a response whose parts cannot be read) or a response
ApiOutcomes ==
    {[kind |-> "raise", text |-> "", function_calls |-> <<>>]}
    \cup {[kind |-> "response", text |-> text, function_calls |-> calls] :
            text \in {"", "On it."}, calls \in CallLists}

\* the bookings a list of calls can add
Bookings(function_calls) ==
    Cardinality({i \in DOMAIN function_calls : function_calls[i].name = "create_appointment"})

(* The steps of chat_with_ai *)

\* the request arrives: _get_or_create_chat and _save_user_message
TurnBegin(chat_id, message) ==
    /\ turn.pc \in {"idle", "done"}
    /\ Len(messages) + 2 <= MaxMessages
    /\ IF chat_id # NoId /\ ~Found(db.chats, chat_id)
       THEN /\ turn' = EndTurn([IdleTurn EXCEPT !.chat_id = chat_id, !.start_db = db,
                                                 !.first = Len(messages) + 1], 404)
            /\ UNCHANGED <<db, messages>>
       ELSE /\ chat_id = NoId => Cardinality(DOMAIN db.chats) < MaxChats
            /\ LET chat == IF chat_id = NoId
                           THEN ChatId(Cardinality(DOMAIN db.chats) + 1) ELSE chat_id
                   saved == _save_user_message(messages, <<>>, chat, message)
               IN  /\ db' = IF chat_id # NoId THEN db
                             ELSE [db EXCEPT !.chats = Put(@, chat,
                                        [title |-> message,
                                         updated_at |-> utcnow(messages)])]
                   /\ messages' = saved.rows
                   /\ turn' = [IdleTurn EXCEPT !.pc = "user_saved", !.chat_id = chat,
                                                !.pending = saved.pending,
                                                !.start_db = db',
                                                !.first = Len(messages) + 1]
    /\ UNCHANGED <<last, req>>

\* why the model call failed, if it did
ModelFailure(has_client, api) ==
    IF ~has_client THEN "no_client"
    ELSE IF api.kind = "raise" THEN "exception"
    ELSE "none"

\* build_context_data, _build_conversation_history and generate_response
TurnRespond(has_client, api) ==
    /\ turn.pc = "user_saved"
    /\ Cardinality(DOMAIN db.appointments) + Bookings(api.function_calls) <= MaxAppts
    /\ LET r == generate_response(has_client, api)
       IN  IF r.kind = "raise"
           THEN /\ turn' = Abort([turn EXCEPT
                                        !.model_failure = ModelFailure(has_client, api)])
                /\ db' = rollback(db, turn.start_db)
           ELSE /\ turn' = [turn EXCEPT
                        !.pc = "responded",
                        !.history = _build_conversation_history(messages, turn.chat_id),
                        !.ai_response = r.response,
                        !.function_calls = r.response.function_calls,
                        !.model_failure = ModelFailure(has_client, api)]
                /\ db' = db
    /\ UNCHANGED <<last, req, messages>>

\* _execute_function_calls and _build_response_text
TurnActions ==
    /\ turn.pc = "responded"
    /\ \E o \in _execute_function_calls(turn.function_calls, db, turn.tx_aborted) :
        /\ db' = o.db
        /\ turn' = [turn EXCEPT
                !.pc = "composed",
                !.results = o.results,
                !.tx_aborted = o.tx_aborted,
                !.response_text = _build_response_text(turn.ai_response, o.results)]
    /\ UNCHANGED <<last, req, messages>>

\* _save_ai_message: its commit raises when the server has aborted the transaction
TurnSaveAi ==
    /\ turn.pc = "composed"
    /\ IF turn.tx_aborted
       THEN /\ turn' = Abort(turn)
            /\ db' = rollback(db, turn.start_db)
            /\ UNCHANGED messages
       ELSE LET saved == _save_ai_message(messages, turn.pending, turn.chat_id,
                                          turn.response_text, turn.ai_response)
            IN  /\ messages' = saved.rows
                /\ turn' = [turn EXCEPT !.pc = "ai_saved", !.pending = saved.pending]
                /\ UNCHANGED db
    /\ UNCHANGED <<last, req>>

\* chat.updated_at = datetime.utcnow(); db.commit(); return {...}
TurnCommit ==
    /\ turn.pc = "ai_saved"
    /\ turn' = EndTurn(turn, 200)
    /\ messages' = Commit(messages, turn.pending)
    /\ db' = [db EXCEPT !.chats[turn.chat_id].updated_at = utcnow(messages')]
    /\ UNCHANGED <<last, req>>

\* a fault of the environment (the database connection is lost) makes the step in
\* progress raise: the context snapshot, the persistence of the assistant message
\* or the last commit
TurnFault ==
    /\ turn.pc \in {"user_saved", "composed", "ai_saved"}
    /\ turn' = Abort([turn EXCEPT !.fault = TRUE])
    /\ db' = rollback(db, turn.start_db)
    /\ UNCHANGED <<last, req, messages>>

NextTurn ==
    \/ \E chat_id \in ChatIds \cup {NoId, UnknownChat} : TurnBegin(chat_id, RequestText)
    \/ \E has_client \in BOOLEAN, api \in ApiOutcomes : TurnRespond(has_client, api)
    \/ TurnActions
    \/ TurnSaveAi
    \/ TurnCommit
    \/ TurnFault

SpecTurn == Init /\ [][NextTurn]_vars

-----------------------------------------------------------------------------
(* Properties of the chat turn *)

\* the user message of the turn is a row of the messages table
UserMessagePersisted ==
    /\ turn.first \in DOMAIN messages
    /\ messages[turn.first] = UserMessage(turn.chat_id, RequestText)

\* the assistant message of the turn is a row of the messages table
AiMessagePersisted ==
    /\ turn.first + 1 \in DOMAIN messages
    /\ messages[turn.first + 1] =
            AiMessage(turn.chat_id, turn.response_text, turn.ai_response)

Aborted == turn.pc = "done" /\ turn.status = 500

C7_AbortKeepsUserMessage ==
    Aborted =>
        /\ turn.responses = <<500>>
        /\ UserMessagePersisted

\* a turn aborted while persisting the assistant message, after an action of the
\* turn had failed; the user message is there
C7_Witness ==
    /\ Aborted
    /\ ~turn.fault
    /\ turn.results # <<>>
    /\ UserMessagePersisted
    /\ Len(messages) = turn.first

\* what the actions of the turn left, computed from the start of the turn
ActionsLeft(d) ==
    \E o \in _execute_function_calls(turn.function_calls, turn.start_db, FALSE) :
        o.db = d /\ o.results = turn.results

(* C8, as claimed: when a turn aborts, the store holds no change made by the  *)
(* turn other than the user message: no appointment, client or provider is   *)
(* left created or cancelled by its actions, and no assistant message.       *)
C8_AbortLeavesOnlyUserMessage ==
    Aborted =>
        /\ db.appointments = turn.start_db.appointments
        /\ db.clients = turn.start_db.clients
        /\ db.providers = turn.start_db.providers
        /\ Len(messages) = turn.first

(* C8, amended: when a turn aborts, the rollback discards only what is not    *)
(* committed: the user message stays, the database is as the actions that    *)
(* had run left it (each action commits its own changes), and the assistant  *)
(* message stays when the failure came after its commit.                     *)
C8_AbortKeepsCommittedWork ==
    Aborted =>
        /\ UserMessagePersisted
        /\ turn.pending = <<>>
        /\ IF turn.response_text = <<>> THEN db = turn.start_db ELSE ActionsLeft(db)
        /\ \/ Len(messages) = turn.first
           \/ AiMessagePersisted /\ Len(messages) = turn.first + 1

\* a turn aborted after one of its actions had created a client: the client stays
C8_Witness ==
    /\ Aborted
    /\ turn.results # <<>>
    /\ DOMAIN db.clients # DOMAIN turn.start_db.clients

\* how many of the results failed with that error line
FailedWith(line) ==
    Cardinality({i \in DOMAIN turn.results :
                    ~turn.results[i].success /\ ErrorLine(turn.results[i]) = line})
LinesOf(line) ==
    Cardinality({j \in DOMAIN turn.response_text : turn.response_text[j] = line})

(* C9: a failing action never aborts the turn: whatever calls the model       *)
(* returned, the turn (when the database does not fail by itself) runs every  *)
(* call, persists an assistant message, answers with the reply, and the      *)
(* reply holds an error line for each failed action.                         *)
C9_FailedActionNeverAborts ==
    (turn.pc = "done" /\ ~turn.fault /\ turn.status # 404) =>
        /\ turn.status = 200
        /\ Len(turn.results) = Len(turn.function_calls)
        /\ AiMessagePersisted
        /\ \A i \in DOMAIN turn.results :
                ~turn.results[i].success =>
                    LinesOf(ErrorLine(turn.results[i]))
                        >= FailedWith(ErrorLine(turn.results[i]))

(* C10: execute_function never raises: for every action name, registered or   *)
(* unknown, and every argument bag, missing and malformed arguments          *)
(* included, in every state of the store and of the session, it returns a    *)
(* result with a boolean success and, when success is false, an error text.  *)
C10_ExecuteFunctionNeverRaises ==
    \A call \in ModelCalls, tx_aborted \in BOOLEAN :
        \A o \in execute_function(call.name, call.args, db, tx_aborted) :
            /\ o.kind = "return"
            /\ o.result.success \in BOOLEAN
            /\ ~o.result.success => o.result.error # ""

\* a turn has run an unknown function and a handler on a malformed identifier, and
\* holds a failed result for each
C10_Witness ==
    /\ turn.pc = "composed"
    /\ \E i, j \in DOMAIN turn.results :
        /\ turn.function_calls[i].name \notin HandlerNames
        /\ turn.results[i].error = "Unknown function"
        /\ turn.function_calls[j].name = "create_appointment"
        /\ turn.function_calls[j].args.provider_id = MalformedId
        /\ ~turn.results[j].success

\* the actions of the turn have run (the reply is composed from their results)
ActionsRan == turn.response_text # <<>>

RECURSIVE RunPrefix(_)
\* what the first n calls of the turn leave when each runs once, in the order of
\* the list, on the database and the session the calls before it left
RunPrefix(n) ==
    IF n = 0
    THEN {[results |-> <<>>, db |-> turn.start_db, tx_aborted |-> FALSE]}
    ELSE UNION {
            {[results |-> Append(r.results, o.result), db |-> o.db,
              tx_aborted |-> o.tx_aborted] :
                o \in execute_function(turn.function_calls[n].name,
                                       turn.function_calls[n].args, r.db, r.tx_aborted)} :
            r \in RunPrefix(n - 1)}

RECURSIVE ExpectedLines(_)
\* one line per result, first to last: the message of a success, the error line
\* of a failure
ExpectedLines(n) ==
    IF n = 0 THEN <<>>
    ELSE Append(ExpectedLines(n - 1),
                IF turn.results[n].success THEN turn.results[n].message
                ELSE ErrorLine(turn.results[n]))

DefaultReply == <<"Done!">>

-----------------------------------------------------------------------------
(* The clients table: the assistant's create_client against the REST         *)
(* endpoints that create and deactivate clients (routers/clients.py).        *)

MaxClients == 3

ListedNames == {"John", "Ann"}

\* POST /clients: inserts the row, no look-up of the name
rest_create_client(data, d) ==
    Http(201, [d EXCEPT !.clients = Put(@, NewClientId(d),
                    [name |-> data.name, is_active |-> TRUE])])

\* a DELETE /clients/{client_id} that removes the row
rest_delete_client_hard(client_id, d) ==
    IF ~Found(d.clients, client_id) THEN Http(404, d)
    ELSE Http(204, [d EXCEPT !.clients =
                        [c \in DOMAIN d.clients \ {client_id} |-> d.clients[c]]])

\* DELETE /clients/{client_id}: the row stays, its active flag is cleared
rest_delete_client(client_id, d) ==
    IF ~Found(d.clients, client_id) THEN Http(404, d)
    ELSE Http(204, [d EXCEPT !.clients[client_id].is_active = FALSE])

\* what a request on the clients table leaves in "last": the name it carried and
\* the table it found
ClientLast(op, success, error, name, before) ==
    [op |-> op, success |-> success, error |-> error, name |-> name,
     before |-> before]

AICreateClient(args) ==
    /\ Cardinality(DOMAIN db.clients) < MaxClients
    /\ \E o \in create_client(args, db) :
        /\ db' = o.db
        /\ last' = ClientLast("ai_create_client", o.result.success, o.result.error,
                              args.name, db.clients)
    /\ UNCHANGED <<req, turn, messages>>

RestCreateClient(data) ==
    /\ Cardinality(DOMAIN db.clients) < MaxClients
    /\ LET o == rest_create_client(data, db)
       IN  /\ db' = o.db
           /\ last' = ClientLast("rest_create_client", o.status < 400,
                                 ToString(o.status), data.name, db.clients)
    /\ UNCHANGED <<req, turn, messages>>

RestDeleteClient(client_id) ==
    /\ LET o == rest_delete_client(client_id, db)
       IN  /\ db' = o.db
           /\ last' = ClientLast("rest_delete_client", o.status < 400,
                                 ToString(o.status), NoName, db.clients)
    /\ UNCHANGED <<req, turn, messages>>

NextClients ==
    \/ \E name \in ListedNames \cup {NoName} : AICreateClient([name |-> name])
    \/ \E name \in ListedNames : RestCreateClient([name |-> name])
    \/ \E id \in DOMAIN db.clients \cup {UnknownClient} : RestDeleteClient(id)

SpecClients == Init /\ [][NextClients]_vars

\* the table holds an active client of that name
ActiveNamesake(clients, name) ==
    \E c \in DOMAIN clients : clients[c].name = name /\ clients[c].is_active

\* the table holds clients of that name, none of them active
OnlyInactiveNamesakes(clients, name) ==
    /\ \E c \in DOMAIN clients : clients[c].name = name
    /\ ~ActiveNamesake(clients, name)

(* C13: creating a client through the assistant fails with the conflict       *)
(* exactly when an active client of the same name exists; when every         *)
(* existing client of that name is inactive, the call persists a new client  *)
(* and returns success.                                                      *)
C13_ConflictOnlyWithActiveName ==
    last.op = "ai_create_client" =>
        /\ (~last.success /\ last.error = "Client already exists")
                <=> ActiveNamesake(last.before, last.name)
        /\ OnlyInactiveNamesakes(last.before, last.name) =>
                /\ last.success
                /\ \E c \in DOMAIN db.clients \ DOMAIN last.before :
                        db.clients[c].name = last.name /\ db.clients[c].is_active

-----------------------------------------------------------------------------
(* The providers table: the assistant's create_provider, the display name of *)
(* models/provider.py and the endpoint that deactivates a provider.          *)

MaxProviders == 4

\* Provider.get_display_name: the title, a space and the name, or the name alone
\* when the title is empty or None
get_display_name(provider) ==
    IF provider.title # "" THEN provider.title \o " " \o provider.name
    ELSE provider.name

\* DELETE /providers/{provider_id}: the row stays, its active flag is cleared
rest_delete_provider(provider_id, d) ==
    IF ~Found(d.providers, provider_id) THEN Http(404, d)
    ELSE Http(204, [d EXCEPT !.providers[provider_id].is_active = FALSE])

\* the names and titles the model sends to create_provider
ProviderNames == {"Dr. Katz", "Ms. Roth", "Dr Stone", "Dr.Katz", "Katz"}
ProviderTitles == {"", "Dr.", "Doctor"}

\* what a request on the providers table leaves in "last"
ProviderLast(op, success, error, args, before) ==
    [op |-> op, success |-> success, error |-> error, name |-> args.name,
     title |-> args.title, before |-> before]

AICreateProvider(args) ==
    /\ Cardinality(DOMAIN db.providers) < MaxProviders
    /\ \E o \in create_provider(args, db) :
        /\ db' = o.db
        /\ last' = ProviderLast("ai_create_provider", o.result.success,
                                o.result.error, args, db.providers)
    /\ UNCHANGED <<req, turn, messages>>

RestDeleteProvider(provider_id) ==
    /\ LET o == rest_delete_provider(provider_id, db)
       IN  /\ db' = o.db
           /\ last' = ProviderLast("rest_delete_provider", o.status < 400,
                                   ToString(o.status),
                                   [name |-> NoName, title |-> ""], db.providers)
    /\ UNCHANGED <<req, turn, messages>>

NextProviders ==
    \/ \E name \in ProviderNames \cup {NoName}, title \in ProviderTitles :
            AICreateProvider([name |-> name, title |-> title])
    \/ \E id \in DOMAIN db.providers \cup {UnknownProvider} : RestDeleteProvider(id)

SpecProviders == Init /\ [][NextProviders]_vars

\* the name begins with a courtesy title that is a word of its own
StartsWithCourtesyTitle(name) ==
    \E t \in CourtesyTitles : Len(Words(name)) > 1 /\ Words(name)[1] = t

-----------------------------------------------------------------------------
(* expand_recurring_blocked_time (routers/blocked_times.py), statement by     *)
(* statement: "last" holds the arguments, the locals and the position of one *)
(* call. Times are slots, DayLen of them to a day.                           *)

LookaheadDays == 30  \* range_start + timedelta(days=30)

Week == DaysPerWeek * DayLen

NoPattern == "none"

\* the call before its first statement
ExpandCall(bt, start_date, end_date, now) ==
    [op |-> "expand", pc |-> "call", bt |-> bt, start_date |-> start_date,
     end_date |-> end_date, now |-> now, range_start |-> NoTime,
     range_end |-> NoTime, current_start |-> NoTime, current_end |-> NoTime,
     instances |-> <<>>]

\* the statements before the loop: fromisoformat raises on a string that is no
\* date; without start_date the range starts now, without end_date it ends 30
\* days later; an earlier recurrence_end_date replaces the end of the range
expand_enter(l) ==
    IF l.start_date = BadDate \/ l.end_date = BadDate THEN [l EXCEPT !.pc = "raised"]
    ELSE LET range_start == IF l.start_date # NoTime THEN l.start_date ELSE l.now
             asked_end == IF l.end_date # NoTime THEN l.end_date
                          ELSE range_start + LookaheadDays * DayLen
             range_end == IF l.bt.recurrence_end_date # NoTime
                                /\ l.bt.recurrence_end_date < asked_end
                          THEN l.bt.recurrence_end_date ELSE asked_end
         IN  [l EXCEPT !.pc = "loop", !.range_start = range_start,
                       !.range_end = range_end,
                       !.current_start = l.bt.start_time,
                       !.current_end = l.bt.end_time]

(* A mutation of the test of the loop body: an occurrence that ends exactly   *)
(* at range_start is left out.                                               *)
EmittedAfterRangeStart(l) ==
    IF l.current_end > l.range_start
    THEN Append(l.instances, [start |-> l.current_start, end |-> l.current_end])
    ELSE l.instances

\* the instances after the "if current_end >= range_start" of one pass
Emitted(l) ==
    IF l.current_end >= l.range_start
    THEN Append(l.instances, [start |-> l.current_start, end |-> l.current_end])
    ELSE l.instances

(* A mutation of the loop body: an occurrence that ends before the range is   *)
(* skipped with "continue", before the start has moved.                      *)
expand_iterate_continue(l) ==
    LET step == RecurrenceStep(l.bt.recurrence_pattern)
        duration == l.bt.end_time - l.bt.start_time
    IN  IF l.current_end < l.range_start THEN l
        ELSE IF step = 0 THEN [l EXCEPT !.instances = Emitted(l), !.pc = "done"]
        ELSE [l EXCEPT !.instances = Emitted(l),
                       !.current_start = l.current_start + step,
                       !.current_end = l.current_start + step + duration]

\* one pass of the loop body: the occurrence is emitted when it ends at or after
\* range_start, then the start moves by the step of the pattern and the end
\* follows at the template's duration; any other pattern breaks out of the loop
expand_iterate(l) ==
    LET step == RecurrenceStep(l.bt.recurrence_pattern)
        duration == l.bt.end_time - l.bt.start_time
    IN  IF step = 0 THEN [l EXCEPT !.instances = Emitted(l), !.pc = "done"]
        ELSE [l EXCEPT !.instances = Emitted(l),
                       !.current_start = l.current_start + step,
                       !.current_end = l.current_start + step + duration]

\* the start of the query window of the model, and the starts, durations,
\* patterns and recurrence end dates of the templates
WindowStart == 2 * Week
TemplateStarts == (WindowStart - Week - 1)..(WindowStart + 2 * Week + 1)
TemplateDurations == {1, DayLen}
Patterns == {"daily", "weekly", "monthly", "yearly", NoPattern}
RecurrenceEnds == {NoTime, WindowStart + DayLen, WindowStart + 2 * LookaheadDays * DayLen}

Templates ==
    {[start_time |-> t, end_time |-> t + dur, recurrence_pattern |-> pat,
      recurrence_end_date |-> rec_end] :
        t \in TemplateStarts, dur \in TemplateDurations, pat \in Patterns,
        rec_end \in RecurrenceEnds}

\* the calls: with and without start_date and end_date, and with strings that
\* are no dates; the clock matters only without start_date
ExpandCalls ==
    {ExpandCall(bt, start_date, end_date, now) :
        bt \in Templates,
        start_date \in {NoTime, BadDate, WindowStart},
        end_date \in {NoTime, BadDate, WindowStart + 2 * Week},
        now \in {WindowStart, WindowStart + 1}}

InitExpand ==
    /\ db = InitDb
    /\ last \in {c \in ExpandCalls : c.start_date # NoTime => c.now = WindowStart}
    /\ req = NoRequests
    /\ turn = IdleTurn
    /\ messages = <<>>

ExpandEnter ==
    /\ last.pc = "call"
    /\ last' = expand_enter(last)
    /\ UNCHANGED <<db, req, turn, messages>>

\* while current_start <= range_end: one pass
ExpandIterate ==
    /\ last.pc = "loop"
    /\ last.current_start <= last.range_end
    /\ last' = expand_iterate(last)
    /\ UNCHANGED <<db, req, turn, messages>>

\* the loop condition fails: return instances
ExpandReturn ==
    /\ last.pc = "loop"
    /\ last.current_start > last.range_end
    /\ last' = [last EXCEPT !.pc = "done"]
    /\ UNCHANGED <<db, req, turn, messages>>

NextExpand == ExpandEnter \/ ExpandIterate \/ ExpandReturn

SpecExpand == InitExpand /\ [][NextExpand]_vars

\* the call is sequential code: a statement that can run does run
SpecExpandLive == SpecExpand /\ WF_vars(NextExpand)

\* a weekly template without recurrence end, expanded over a window of 14 days
WeeklyOverTwoWeeks ==
    /\ last.pc = "done"
    /\ last.bt.recurrence_pattern = "weekly"
    /\ last.bt.recurrence_end_date = NoTime
    /\ last.start_date # NoTime
    /\ last.end_date = last.start_date + 2 * Week

\* each occurrence starts 7 days after the one before and has the template's
\* duration
WeeklySpacing ==
    /\ \A i \in 1..Len(last.instances) :
            last.instances[i].end - last.instances[i].start
                = last.bt.end_time - last.bt.start_time
    /\ \A i \in 2..Len(last.instances) :
            last.instances[i].start = last.instances[i - 1].start + Week

\* an occurrence of the template begins at or before the start of the window and
\* ends at or after it
OccurrenceAtWindowStart ==
    \E k \in 0..(2 * DaysPerWeek) :
        /\ last.bt.start_time + k * Week <= last.range_start
        /\ last.bt.end_time + k * Week >= last.range_start

(* C15 as stated: a weekly blocked time without recurrence end, expanded over *)
(* a window of 14 days, yields exactly 2 occurrences, each 7 days after the  *)
(* one before and of the template's duration, wherever the window starts     *)
(* relative to the template.                                                 *)
C15_TwoOccurrencesAnyAlignment ==
    WeeklyOverTwoWeeks => Len(last.instances) = 2 /\ WeeklySpacing

(* C15, amended: the occurrences are 7 days apart and of the template's      *)
(* duration; there are 2 of them when the template starts no later than 7    *)
(* days after the window start and no occurrence lies across or touches the  *)
(* window start, 3 when one does (both ends of the window are inclusive),    *)
(* 1 when the template starts more than 7 and at most 14 days after the      *)
(* window start, none when it starts later.                                  *)
C15_OccurrencesByAlignment ==
    WeeklyOverTwoWeeks =>
        /\ WeeklySpacing
        /\ Len(last.instances) =
            IF last.bt.start_time > last.range_start + 2 * Week THEN 0
            ELSE IF last.bt.start_time > last.range_start + Week THEN 1
            ELSE IF OccurrenceAtWindowStart THEN 3
            ELSE 2

\* the scenario of the spec: the template starts half a day into the window, and
\* the expansion returned two occurrences
C15_Witness ==
    /\ WeeklyOverTwoWeeks
    /\ last.bt.start_time = last.range_start + 1
    /\ last.bt.end_time = last.bt.start_time + 1
    /\ Len(last.instances) = 2
    /\ last.instances[2].start = last.instances[1].start + Week

(* C16: expand_recurring_blocked_time terminates for every blocked time and   *)
(* every query window: with and without a recurrence end date, with and      *)
(* without start and end dates, for the patterns daily, weekly, monthly and  *)
(* for any other value.                                                      *)
C16_ExpansionTerminates == <>(last.pc \in {"done", "raised"})

\* a call without dates on a template without recurrence end and with a pattern
\* the loop does not know has returned
C16_Witness ==
    /\ last.pc = "done"
    /\ last.start_date = NoTime /\ last.end_date = NoTime
    /\ last.bt.recurrence_end_date = NoTime
    /\ last.bt.recurrence_pattern = "yearly"
    /\ Len(last.instances) = 1

-----------------------------------------------------------------------------
(* check_availability against the appointments and blocked times that the    *)
(* REST endpoints store.                                                     *)

AICheckAvailability(args) ==
    /\ \E o \in check_availability(args, db) :
        /\ db' = o.db
        /\ last' = [op |-> "ai_check", success |-> o.result.success,
                    error |-> o.result.error, provider_id |-> args.provider_id,
                    date |-> args.date,
                    summary |-> IF o.result.success
                                THEN week_summary(args.provider_id, args.date, o.db)
                                ELSE <<>>]
    /\ UNCHANGED <<req, turn, messages>>

\* the bookings and the blocked times of the first provider
BookingsOfFirst == {data \in RestCreateData : data.provider_id = "p1"}
BlocksOfFirst ==
    {data \in BlockedTimeData :
        /\ data.provider_id = "p1" /\ data.block_type = "lunch" /\ data.reason = ""
        /\ ~data.is_recurring}

NextAvailability ==
    \/ \E data \in BookingsOfFirst : RestCreateAppointment(data)
    \/ \E id \in ApptIds : RestDeleteAppointment(id)
    \/ \E data \in BlocksOfFirst : RestCreateBlockedTime(data)
    \/ \E id \in BlockIds : RestDeleteBlockedTime(id)
    \/ \E p \in ProviderIds \cup {UnknownProvider, NoId}, date \in Days \cup {BadDate} :
            AICheckAvailability([provider_id |-> p, date |-> date])

SpecAvailability == Init /\ [][NextAvailability]_vars

\* the slots of the interval [s, e) that lie in the day
SlotsInDay(s, e, day) ==
    Cardinality({t \in s..(e - 1) : t \div DayLen = day})

RECURSIVE BusyInDay(_, _, _)
\* the time the rows "ids" of a table take of the day, each row counted with the
\* part of its interval that lies in the day
BusyInDay(table, ids, day) ==
    IF ids = {} THEN 0
    ELSE LET id == CHOOSE x \in ids : TRUE
         IN  SlotsInDay(table[id].start_time, table[id].end_time, day)
                + BusyInDay(table, ids \ {id}, day)

\* the free time of the provider on the day: the span of the working hours less
\* the appointments that are not cancelled and the active blocked intervals
FreeTime(provider_id, day) ==
    LET work == db.providers[provider_id].working_hours
    IN  work[2] - work[1]
            - BusyInDay(db.appointments,
                        {a \in DOMAIN db.appointments :
                            /\ db.appointments[a].provider_id = provider_id
                            /\ db.appointments[a].status # CANCELLED}, day)
            - BusyInDay(db.blocked_times,
                        {b \in DOMAIN db.blocked_times :
                            /\ db.blocked_times[b].provider_id = provider_id
                            /\ db.blocked_times[b].is_active}, day)

(* C17: check_availability reports exactly 7 consecutive days from the given *)
(* date; for each day the free time is the span of the provider's working    *)
(* hours less the total duration of the provider's appointments that are not *)
(* cancelled and of the active blocked intervals on that day, and the day is *)
(* reported as fully booked exactly when that free time is not positive.     *)
C17_WeekSummary ==
    (last.op = "ai_check" /\ last.success) =>
        /\ Len(last.summary) = 7
        /\ \A i \in 1..Len(last.summary) :
            /\ last.summary[i].day = last.date + i - 1
            /\ last.summary[i].available_hours
                    = FreeTime(last.provider_id, last.summary[i].day)
            /\ last.summary[i].line = "Fully booked"
                    <=> FreeTime(last.provider_id, last.summary[i].day) <= 0

(* C27: check_availability called with a date and no provider_id (the tool  *)
(* schema requires only the date) checks all providers and returns a        *)
(* successful summary, not a failure.                                       *)
C27_NoProviderChecksAll ==
    (last.op = "ai_check" /\ last.provider_id = NoId /\ last.date \in Days) =>
        /\ last.success
        /\ last.summary # <<>>

-----------------------------------------------------------------------------
(* The instruction cache (services/gemini_service.py) and the request that    *)
(* generate_response sends: "last" holds one call of generate_response, by   *)
(* chat_with_ai or by another user of the service, and the state of the      *)
(* cache at the provider.                                                    *)

CacheHandle == "cachedContents/1"

\* the call before its first statement; no request built, no response yet
NoModelRequest ==
    [cached_content |-> NoId, tools |-> FALSE, tool_config |-> FALSE,
     system_instruction |-> FALSE, contents |-> <<>>]
NoResponse == [text |-> "", model |-> "", function_calls |-> <<>>]
GenerateCall(caller, chat_cache, cache_name, context_data, has_client, alive) ==
    [op |-> "generate", pc |-> "call", caller |-> caller, chat_cache |-> chat_cache,
     cache_name |-> cache_name, context_data |-> context_data,
     has_client |-> has_client, alive |-> alive,
     lookup |-> "none", probe |-> [kind |-> "none", value |-> FALSE],
     request |-> NoModelRequest, response |-> NoResponse, reply |-> <<>>]

\* chat_with_ai passes message, history and context_data, and no cache_name:
\* the parameter keeps its default None whatever the chat row carries
chat_with_ai_cache_name(chat_cache) == NoId

\* client.caches.get: the cache object, or an exception (an unknown or expired
\* name, or any fault of the call)
Lookups(alive) == IF alive THEN {"found", "raise"} ELSE {"raise"}

(* A mutation of _is_cache_valid: the exception of the lookup propagates. *)
_is_cache_valid_unguarded(cache_name, has_client, lookup) ==
    IF cache_name = NoId \/ ~has_client THEN [kind |-> "return", value |-> FALSE]
    ELSE IF lookup = "raise" THEN [kind |-> "raise", value |-> FALSE]
    ELSE [kind |-> "return", value |-> lookup = "found"]

\* _is_cache_valid: False without a name or a client, False when the lookup
\* raises, otherwise whether the lookup returned a cache
_is_cache_valid(cache_name, has_client, lookup) ==
    IF cache_name = NoId \/ ~has_client THEN [kind |-> "return", value |-> FALSE]
    ELSE IF lookup = "raise" THEN [kind |-> "return", value |-> FALSE]
    ELSE [kind |-> "return", value |-> lookup = "found"]

\* _build_dynamic_context and the conversation text: the date reference, the
\* current data (or a line that says there is none), the history and the new
\* message; no static instructions
full_content(context_data) ==
    <<"date context", IF context_data # "" THEN context_data ELSE "No data available.",
      "conversation">>

\* the configuration and contents of generate_content: with a valid cache the
\* reference to it, otherwise the tools and the tool configuration; the contents
\* are the dynamic block either way and no system instruction is set
ModelRequest(cache_name, valid, context_data) ==
    IF cache_name # NoId /\ valid
    THEN [cached_content |-> cache_name, tools |-> FALSE, tool_config |-> FALSE,
          system_instruction |-> FALSE, contents |-> full_content(context_data)]
    ELSE [cached_content |-> NoId, tools |-> TRUE, tool_config |-> TRUE,
          system_instruction |-> FALSE, contents |-> full_content(context_data)]

\* the answers of the provider in this part of the model: an exception, an
\* empty answer, a text
PlainOutcomes ==
    {[kind |-> "raise", text |-> "", function_calls |-> <<>>]}
    \cup {[kind |-> "response", text |-> text, function_calls |-> <<>>] :
            text \in {"", "On it."}}

GenerateCalls ==
    {GenerateCall("chat_with_ai", chat_cache, chat_with_ai_cache_name(chat_cache),
                  context_data, has_client, alive) :
        chat_cache \in {NoId, CacheHandle}, context_data \in {"", "current data"},
        has_client \in BOOLEAN, alive \in BOOLEAN}
    \cup {GenerateCall("service", NoId, cache_name, context_data, has_client, alive) :
        cache_name \in {NoId, CacheHandle}, context_data \in {"", "current data"},
        has_client \in BOOLEAN, alive \in BOOLEAN}

InitCache ==
    /\ db = InitDb
    /\ last \in GenerateCalls
    /\ req = NoRequests
    /\ turn = IdleTurn
    /\ messages = <<>>

\* the cache at the provider expires or is deleted, at any moment of the call
CacheExpires ==
    /\ last.pc \in {"call", "configured"}
    /\ last.alive
    /\ last' = [last EXCEPT !.alive = FALSE]
    /\ UNCHANGED <<db, req, turn, messages>>

\* generate_response up to the configuration of the request: without a client
\* the simulated response at once; an exception of the probe would be caught by
\* the try block of generate_response
GenerateConfigure(lookup) ==
    /\ last.pc = "call"
    /\ lookup \in Lookups(last.alive)
    /\ LET probe == _is_cache_valid(last.cache_name, last.has_client, lookup)
       IN  last' =
            IF ~last.has_client
            THEN [last EXCEPT !.pc = "returned", !.response = _get_simulated_response]
            ELSE IF last.cache_name = NoId
            THEN [last EXCEPT !.pc = "configured",
                              !.request = ModelRequest(last.cache_name, FALSE,
                                                       last.context_data)]
            ELSE IF probe.kind = "raise"
            THEN [last EXCEPT !.pc = "returned", !.lookup = lookup, !.probe = probe,
                              !.response = _get_simulated_response]
            ELSE [last EXCEPT !.pc = "configured", !.lookup = lookup, !.probe = probe,
                              !.request = ModelRequest(last.cache_name, probe.value,
                                                       last.context_data)]
    /\ UNCHANGED <<db, req, turn, messages>>

\* client.models.generate_content and the parsing of its response: a request
\* that names a cache the provider no longer has is refused
GenerateSend(api) ==
    /\ last.pc = "configured"
    /\ LET outcome == IF last.request.cached_content # NoId /\ ~last.alive
                      THEN [kind |-> "raise", text |-> "", function_calls |-> <<>>]
                      ELSE api
           r == generate_response(last.has_client, outcome)
       IN  last' = IF r.kind = "raise" THEN [last EXCEPT !.pc = "raised"]
                   ELSE [last EXCEPT !.pc = "returned", !.response = r.response]
    /\ UNCHANGED <<db, req, turn, messages>>

\* chat_with_ai goes on with the response: no function call here, the reply is
\* built from the text
GenerateReply ==
    /\ last.pc = "returned"
    /\ last.caller = "chat_with_ai"
    /\ last' = [last EXCEPT !.pc = "replied",
                            !.reply = _build_response_text(last.response, <<>>)]
    /\ UNCHANGED <<db, req, turn, messages>>

NextCache ==
    \/ CacheExpires
    \/ \E lookup \in {"found", "raise"} : GenerateConfigure(lookup)
    \/ \E api \in PlainOutcomes : GenerateSend(api)
    \/ GenerateReply

SpecCache == InitCache /\ [][NextCache]_vars

\* a request has been built and handed to generate_content
RequestBuilt == last.request.contents # <<>>

C19_StaticPolicyAlwaysSent ==
    RequestBuilt =>
        /\ last.request.cached_content = NoId =>
                /\ last.request.system_instruction /\ last.request.tools
                /\ last.request.contents = full_content(last.context_data)
        /\ last.request.cached_content # NoId \/ last.request.system_instruction

-----------------------------------------------------------------------------
(* One booking request on both paths: the assistant's create_appointment and *)
(* POST /appointments, on a store that also holds blocked times.             *)

UnknownService == "s9"
GivenRevenue == 70

\* a booking request: provider, client, optional service, a day and two times of
\* it (any order), and for the REST path an optional explicit revenue
BookingRequests ==
    {r \in [provider_id : {"p1", UnknownProvider}, client_id : {"c1", UnknownClient},
            service_id : {NoId, "s1", UnknownService}, date : {0},
            start_time : TimesOfDay, end_time : TimesOfDay,
            revenue : {NoPrice, GivenRevenue}] :
        (r.provider_id = UnknownProvider \/ r.client_id = UnknownClient)
            => (r.service_id = NoId /\ r.start_time = 0 /\ r.end_time = 1
                    /\ r.revenue = NoPrice)}

\* the arguments of the assistant's action for a request: the tool schema has no
\* revenue, and the handler reads none
AiArgs(r) ==
    [provider_id |-> r.provider_id, client_id |-> r.client_id,
     service_id |-> r.service_id, date |-> r.date,
     start_time |-> r.start_time, end_time |-> r.end_time]

\* the body of POST /appointments for a request: start and end as instants
RestData(r) ==
    [provider_id |-> r.provider_id, client_id |-> r.client_id,
     service_id |-> r.service_id, start_time |-> IsoParse(r.date, r.start_time),
     end_time |-> IsoParse(r.date, r.end_time), revenue |-> r.revenue]

\* what a booking leaves in "last": the outcome and the request
BookingLast(op, success, error, detail, r) ==
    [op |-> op, success |-> success, error |-> error, detail |-> detail,
     request |-> r]

AIBook(r) ==
    /\ \E o \in create_appointment(AiArgs(r), db) :
        /\ db' = o.db
        /\ last' = BookingLast("ai_book", o.result.success, o.result.error,
                               o.result.detail, r)
    /\ UNCHANGED <<req, turn, messages>>

RestBook(r) ==
    /\ \E o \in rest_create_appointment(RestData(r), db) :
        /\ db' = o.db
        /\ last' = BookingLast("rest_book", o.status < 400, ToString(o.status), "", r)
    /\ UNCHANGED <<req, turn, messages>>

\* a lunch break of the first provider on the day of the requests
LunchBreaks ==
    {data \in BlockedTimeData :
        /\ data.provider_id = "p1" /\ data.block_type = "lunch" /\ data.reason = ""
        /\ ~data.is_recurring /\ data.end_time <= DayLen}

NextBooking ==
    \/ \E r \in {x \in BookingRequests : x.revenue = NoPrice} : AIBook(r)
    \/ AIBook([provider_id |-> "p1", client_id |-> "c1", service_id |-> NoId,
               date |-> BadDate, start_time |-> 0, end_time |-> 1,
               revenue |-> NoPrice])
    \/ \E r \in BookingRequests : RestBook(r)
    \/ \E data \in LunchBreaks : RestCreateBlockedTime(data)

SpecBooking == Init /\ [][NextBooking]_vars

AddedAppointments(d1, d2) == DOMAIN d2.appointments \ DOMAIN d1.appointments

\* the revenue the claim gives a booking of a known service: the explicit one
\* when the request carries one, the price of the service otherwise
ExpectedRevenue(r, d) ==
    IF r.revenue # NoPrice THEN r.revenue ELSE d.services[r.service_id].price

(* C25: on both booking paths, a booking that names a service and gives no   *)
(* revenue is stored with the price of the service as its revenue, an        *)
(* explicit revenue is stored instead of the price, and a booking whose      *)
(* service_id resolves to no service fails as not found and persists         *)
(* nothing.                                                                  *)
C25_RevenueFromService ==
    [][last'.op \in {"ai_book", "rest_book"} =>
        LET r == last'.request
        IN  /\ (r.service_id # NoId /\ Found(db.services, r.service_id)
                    /\ last'.success) =>
                \A a \in AddedAppointments(db, db') :
                    db'.appointments[a].revenue = ExpectedRevenue(r, db)
            /\ (r.service_id # NoId /\ ~Found(db.services, r.service_id)
                    /\ Found(db.providers, r.provider_id)
                    /\ Found(db.clients, r.client_id)) =>
                /\ ~last'.success
                /\ last'.error \in {"404", "Service not found"}
                /\ db' = db]_vars

\* the errors of a refused create_appointment: a lookup that finds nothing, an
\* overlap with a blocked time or an appointment, and the exceptions of the
\* parse and of the commit
RefusalErrors ==
    {"Provider not found", "Client not found", "unavailable",
     "already has an appointment", "ValueError", "IntegrityError"}

-----------------------------------------------------------------------------
(* The status column: the writers of routers/appointments.py and of the      *)
(* assistant, and the reader of services/analytics_service.py.               *)

\* the status strings a PUT may carry: AppointmentUpdate.status is any string
StatusStrings == AppointmentStatus \cup {"no-show", "archived"}

\* an update that sets the status and nothing else
StatusUpdate(st) ==
    [provider_id |-> NoId, client_id |-> NoId, service_id |-> NoId,
     revenue |-> NoPrice, start_time |-> NoTime, end_time |-> NoTime, status |-> st]

\* the keys of status_map in get_appointments_by_status
StatusMapKeys == {"scheduled", "completed", "cancelled", "no-show"}

\* get_appointments_by_status: the rows grouped by status, the groups whose
\* status is a key of status_map copied into it, the other keys left at 0
get_appointments_by_status(d) ==
    [st \in StatusMapKeys |->
        Cardinality({a \in DOMAIN d.appointments : d.appointments[a].status = st})]

NextStatus ==
    \/ \E r \in {x \in BookingRequests :
                    /\ x.provider_id = "p1" /\ x.client_id = "c1"
                    /\ x.service_id = NoId /\ x.revenue = NoPrice
                    /\ x.start_time < x.end_time} : RestBook(r)
    \/ \E id \in ApptIds \cup {UnknownAppt}, st \in StatusStrings :
            RestUpdateAppointment(id, StatusUpdate(st))
    \/ \E id \in ApptIds : RestDeleteAppointment(id)
    \/ \E args \in AICancelArgs : AICancelAppointment(args)

SpecStatus == Init /\ [][NextStatus]_vars

(* C22: in every reachable state the status of each appointment is one of    *)
(* the five values of AppointmentStatus, no operation stores another value,  *)
(* and the component that reads statuses uses the same five spellings (each  *)
(* appointment is counted under its status).                                 *)
C22_StatusIsOneOfFive ==
    /\ \A a \in DOMAIN db.appointments : db.appointments[a].status \in AppointmentStatus
    /\ \A st \in AppointmentStatus :
            /\ st \in DOMAIN get_appointments_by_status(db)
            /\ get_appointments_by_status(db)[st]
                = Cardinality({a \in DOMAIN db.appointments :
                                    db.appointments[a].status = st})

-----------------------------------------------------------------------------
(* Deleting providers, clients and services: routers/providers.py,           *)
(* routers/clients.py and routers/services.py.                               *)

\* the tables whose DELETE endpoint deactivates
Directory == {"providers", "clients", "services"}

\* GET /providers/{id}, /clients/{id}, /services/{id}: the row of that id,
\* whatever its active flag; 404 when there is none
rest_get_by_id(table, id, d) ==
    IF ~Found(d[table], id) THEN Http(404, d) ELSE Http(200, d)

\* DELETE /services/{service_id}: the row stays, its active flag is cleared
rest_delete_service(service_id, d) ==
    IF ~Found(d.services, service_id) THEN Http(404, d)
    ELSE Http(204, [d EXCEPT !.services[service_id].is_active = FALSE])

RestDeleteService(service_id) ==
    /\ LET o == rest_delete_service(service_id, db)
       IN  /\ db' = o.db
           /\ last' = RestLast("rest_delete_service", o.status, service_id)
    /\ UNCHANGED <<req, turn, messages>>

RestGetById(table, id) ==
    /\ LET o == rest_get_by_id(table, id, db)
       IN  /\ db' = o.db
           /\ last' = RestLast("rest_get_" \o table, o.status, id)
    /\ UNCHANGED <<req, turn, messages>>

\* the three tables under creations, deletions and reads by id
NextDirectory ==
    \/ \E name \in ListedNames : AICreateClient([name |-> name])
    \/ \E name \in ListedNames : RestCreateClient([name |-> name])
    \/ \E id \in DOMAIN db.clients \cup {UnknownClient} : RestDeleteClient(id)
    \/ \E name \in {"Katz"} : AICreateProvider([name |-> name, title |-> ""])
    \/ \E id \in DOMAIN db.providers \cup {UnknownProvider} : RestDeleteProvider(id)
    \/ \E id \in DOMAIN db.services \cup {UnknownService} : RestDeleteService(id)
    \/ \E table \in Directory :
        \E id \in DOMAIN db[table] \cup {UnknownClient} : RestGetById(table, id)

SpecDirectory == Init /\ [][NextDirectory]_vars

\* the successful DELETE requests on the three tables
DirectoryDeletes ==
    {"rest_delete_provider", "rest_delete_client", "rest_delete_service"}

\* d2 is d1 with the active flag of one row of one of the three tables cleared
OnlyFlagCleared(d1, d2) ==
    \E table \in Directory : \E id \in DOMAIN d1[table] :
        d2 = [d1 EXCEPT ![table][id].is_active = FALSE]

(* C23: providers, clients and services are never removed. A successful      *)
(* DELETE changes nothing but the active flag of one row, no step makes the  *)
(* set of ids of a table smaller, and every row that was there is still      *)
(* returned by the read by id afterwards.                                    *)
C23_SoftDeleteOnly ==
    [][/\ (last'.op \in DirectoryDeletes /\ last'.success) => OnlyFlagCleared(db, db')
       /\ \A table \in Directory : \A id \in DOMAIN db[table] :
            /\ id \in DOMAIN db'[table]
            /\ rest_get_by_id(table, id, db').status = 200]_vars

\* a client was deleted and then read by id: the row is there, inactive
C23_Witness ==
    /\ last.op = "rest_get_clients" /\ last.success
    /\ last.id \in DOMAIN db.clients
    /\ ~db.clients[last.id].is_active


-----------------------------------------------------------------------------
(* What a successful chat turn leaves: routers/ai.py chat_with_ai,           *)
(* _save_user_message and _save_ai_message.                                  *)

\* the models an assistant message can name: the configured one, or the marker
\* of the simulated response
ModelsUsed == {ModelName, _get_simulated_response.model}

\* the turn has returned its reply
Returned == turn.pc = "done" /\ turn.status = 200

\* the table is what it was when the turn began, then the user message of the
\* turn, then one assistant message naming the model of the turn's response; the
\* chat of the turn carries the time of the last commit
TurnRecorded ==
    /\ Len(messages) = turn.first + 1
    /\ messages[turn.first] = UserMessage(turn.chat_id, RequestText)
    /\ messages[turn.first + 1].chat_id = turn.chat_id
    /\ messages[turn.first + 1].message_type = "ai"
    /\ messages[turn.first + 1].content = turn.response_text
    /\ messages[turn.first + 1].model_used = turn.ai_response.model
    /\ messages[turn.first + 1].model_used \in ModelsUsed
    /\ db.chats[turn.chat_id].updated_at = utcnow(messages)
    /\ db.chats[turn.chat_id].updated_at > turn.first

-----------------------------------------------------------------------------
(* The prompt of a turn under concurrent requests on one chat: routers/ai.py *)
(* _save_user_message and _build_conversation_history, and the conversation  *)
(* text of GeminiService.generate_response.                                  *)

HistoryWindow == 15

\* a line of the conversation text
PromptLine(role, text) == [role |-> role, text |-> text]

\* the conversation text of generate_response: the last HistoryWindow entries of
\* the history, then the message of the request as a line of the user
conversation_text(history, message) ==
    LET n == Len(history)
        recent == SubSeq(history, IF n > HistoryWindow THEN n - HistoryWindow + 1 ELSE 1, n)
    IN  [i \in 1..Len(recent) |->
            PromptLine(IF recent[i].role = "user" THEN "User" ELSE "Assistant",
                       recent[i].text)]
        \o <<PromptLine("User", <<message>>)>>

\* the chat the requests are sent to, and what each session says
OpenChat == ChatId(1)
SessionText(r) == IF r = "r1" THEN RequestText ELSE "again"

\* the rows the chat holds before the requests: user and assistant in turn
EarlierCounts == {0, 2, HistoryWindow - 1, HistoryWindow, HistoryWindow + 1}
EarlierMessages(n) ==
    [i \in 1..n |->
        IF i % 2 = 1 THEN UserMessage(OpenChat, "m" \o ToString(i))
        ELSE AiMessage(OpenChat, <<"m" \o ToString(i)>>, [model |-> ModelName])]

InitHistory ==
    /\ db = [InitDb EXCEPT !.chats = Put(@, OpenChat,
                [title |-> "m1", updated_at |-> 0])]
    /\ last = NoLast
    /\ req = NoRequests
    /\ turn = IdleTurn
    /\ \E n \in EarlierCounts : messages = EarlierMessages(n)

\* the request of a session arrives: the chat is found and the user message is
\* saved and committed
HistoryBegin(r) ==
    /\ req[r].pc = "idle"
    /\ Found(db.chats, OpenChat)
    /\ LET saved == _save_user_message(messages, <<>>, OpenChat, SessionText(r))
       IN  /\ messages' = saved.rows
           /\ req' = [req EXCEPT ![r] = [pc |-> "user_saved",
                                         first |-> Len(saved.rows),
                                         seen |-> 0, prompt |-> <<>>]]
    /\ UNCHANGED <<db, last, turn>>

\* the history is read and the conversation text of the model call is built
HistoryPrompt(r) ==
    /\ req[r].pc = "user_saved"
    /\ req' = [req EXCEPT ![r].pc = "prompted",
                          ![r].seen = Len(messages),
                          ![r].prompt = conversation_text(
                                _build_conversation_history(messages, OpenChat),
                                SessionText(r))]
    /\ UNCHANGED <<db, last, turn, messages>>

\* the assistant message of the session is saved and the chat is touched
HistoryFinish(r) ==
    /\ req[r].pc = "prompted"
    /\ LET saved == _save_ai_message(messages, <<>>, OpenChat, <<"Done!">>,
                                     [model |-> ModelName])
       IN  /\ messages' = saved.rows
           /\ db' = [db EXCEPT !.chats[OpenChat].updated_at = utcnow(saved.rows)]
    /\ req' = [req EXCEPT ![r].pc = "done"]
    /\ UNCHANGED <<last, turn>>

NextHistory ==
    \/ \E r \in Sessions : HistoryBegin(r)
    \/ \E r \in Sessions : HistoryPrompt(r)
    \/ \E r \in Sessions : HistoryFinish(r)

SpecHistory == InitHistory /\ [][NextHistory]_vars

\* the rows of the table as lines of a conversation text
Lines(rows) ==
    [i \in 1..Len(rows) |->
        PromptLine(IF rows[i].message_type = "user" THEN "User" ELSE "Assistant",
                   rows[i].content)]

\* the rows a session found when it read the history, its own message left out
OtherRows(r) ==
    SubSeq(messages, 1, req[r].first - 1)
        \o SubSeq(messages, req[r].first + 1, req[r].seen)

\* the last n elements of a sequence (all of it when it is shorter)
LastOf(seq, n) ==
    SubSeq(seq, IF Len(seq) > n THEN Len(seq) - n + 1 ELSE 1, Len(seq))

(* C26: the prompt of a turn contains the turn's own user message exactly   *)
(* once, as its last line, preceded by the most recent other messages of    *)
(* the chat, at most 15 of them, in creation order; for every interleaving  *)
(* of the requests, also when another request appends a message between the *)
(* commit of the turn's user message and its read of the history.           *)
C26_PromptHoldsOwnMessageOnce ==
    \A r \in Sessions : req[r].pc \in {"prompted", "done"} =>
        LET prompt == req[r].prompt
            own == PromptLine("User", <<SessionText(r)>>)
        IN  /\ Cardinality({i \in DOMAIN prompt : prompt[i] = own}) = 1
            /\ prompt[Len(prompt)] = own
            /\ Len(prompt) - 1 <= HistoryWindow
            /\ SubSeq(prompt, 1, Len(prompt) - 1)
                    = LastOf(Lines(OtherRows(r)), HistoryWindow)


-----------------------------------------------------------------------------
(* Booking again after a cancellation: create_appointment and                *)
(* cancel_appointment of services/ai_functions.py.                           *)

\* the bookings of the first provider for the known client, no service
Rebookings ==
    {r \in BookingRequests :
        /\ r.provider_id = "p1" /\ r.client_id = "c1"
        /\ r.service_id = NoId /\ r.revenue = NoPrice}

NextRebook ==
    \/ \E r \in Rebookings : AIBook(r)
    \/ \E args \in AICancelArgs : AICancelAppointment(args)

SpecRebook == Init /\ [][NextRebook]_vars

\* the appointments of the provider of the request that the interval of the
\* request intersects
Overlapped(r, d) ==
    {a \in DOMAIN d.appointments :
        /\ d.appointments[a].provider_id = r.provider_id
        /\ d.appointments[a].start_time < IsoParse(r.date, r.end_time)
        /\ d.appointments[a].end_time > IsoParse(r.date, r.start_time)}

\* the appointment the request asks for is a new row of d2
BookedAsAsked(r, d1, d2) ==
    \E a \in AddedAppointments(d1, d2) :
        /\ d2.appointments[a].provider_id = r.provider_id
        /\ d2.appointments[a].start_time = IsoParse(r.date, r.start_time)
        /\ d2.appointments[a].end_time = IsoParse(r.date, r.end_time)
        /\ d2.appointments[a].status = SCHEDULED

====
